---------------------------- MODULE Spec2Model ----------------------------
(***************************************************************************)
(* AkiraPlayer: the watch-progress engine (src/src/lib/progress.ts) and    *)
(* the playback session controller (src/unnamed/part_001, the current      *)
(* AkiraPlayer component; src/src/player/AkiraPlayer.tsx is its earlier    *)
(* revision).                                                              *)
(*                                                                         *)
(* Numbers.  JavaScript numbers that carry a time are modelled as integers *)
(* counting HALF SECONDS, so that 700.5 s is 1401 and Math.floor is a real *)
(* operation.  NaN and Infinity are two negative codes (a media time is    *)
(* never negative).  Stored integer seconds are even numbers.              *)
(***************************************************************************)
EXTENDS Integers, Sequences, FiniteSets, TLC

VARIABLES
    store,              \* public.watch_progress: the rows, in insertion order
    hasDurationColumn,  \* schema: does watch_progress have duration_seconds
    partialIndex,       \* schema: is there a unique index on (user_id, movie_id) WHERE episode_id IS NULL
    principal,          \* what supabase.auth.getUser() does: the signed-in user, NULL, an error, a throw
    calls,              \* the engine calls in flight (each an async function activation)
    now,                \* Date.now()
    issued,             \* number of engine calls the environment has started
    lastDone,           \* ghost: the most recently completed engine call
    \* the mounted AkiraPlayer component
    src,                \* prop src
    contentId,          \* prop contentId
    episodeId,          \* prop episodeId
    contentCategoryFromDb, \* useState contentCategoryFromDb (movies.category once fetched)
    category,           \* movies.category of the content
    mediaDuration,      \* the duration of the media behind src, as the sink will report it
    vDuration,          \* videoRef.current.duration
    vCurrentTime,       \* videoRef.current.currentTime
    duration,           \* useState duration
    restoredRef,        \* restoredRef.current
    lastSavedAtRef,     \* lastSavedAtRef.current
    loads,              \* the closures of the restore effect whose loadProgress is in flight
    feedback,           \* the text flashFeedback showed last
    seeks,              \* ghost: restore seeks since the last source attach
    tickSavedAt,        \* ghost: when the last timeupdate-triggered save was issued
    reloaded,           \* ghost: has the page been reloaded
    handled,            \* ghost: flips whenever a timeupdate, flush or ended handler has run
    episodes,           \* prop episodes
    playlistMode,       \* prop playlistMode
    onSelectEpisode,    \* is the prop onSelectEpisode given
    playlistNextAutoplayRef, \* playlistNextAutoplayRef.current
    selected,           \* ghost: the id onSelectEpisode was last called with
    seasonId,           \* effectiveSeasonIdForCurrentEpisode
    mounted,            \* is the component mounted
    hlsSupport,         \* the browser: "hlsjs", "native" or "none"
    hlsRef,             \* hlsRef.current: the source its Hls instance loads, or NULL
    videoSrc,           \* the src of the video element
    bindings,           \* ghost: Hls instances created and not destroyed
    thumbnailsVtt,      \* prop thumbnailsVtt
    vttSheet,           \* what a fetch of the cue sheet yields
    thumbnailCues,      \* useState thumbnailCues
    vttLoads,           \* the closures of the thumbnails effect whose fetch is in flight
    hoverTime,          \* useState hoverTime, in tenths of a second, or NoTime
    autoplay,           \* prop autoplay
    plays,              \* ghost: flips whenever a handler has called v.play()
    errorLog            \* ghost: the failure console.error reported last, and a flip

schemaVars == <<hasDurationColumn, partialIndex, principal>>

engineVars == <<store, calls, lastDone>>

ctlVars ==
    <<src, contentId, episodeId, contentCategoryFromDb, category, mediaDuration,
      vDuration, vCurrentTime, duration, restoredRef, lastSavedAtRef, loads, feedback,
      seeks, tickSavedAt, reloaded, handled, episodes, playlistMode, onSelectEpisode,
      playlistNextAutoplayRef, selected, seasonId, mounted, hlsSupport, hlsRef,
      videoSrc, bindings, thumbnailsVtt, vttSheet, thumbnailCues, vttLoads, hoverTime,
      autoplay, plays, errorLog>>

\* what a render without a new source leaves alone
bindVars == <<hlsRef, videoSrc, bindings>>

\* the props of the playlist and of the season, and the browser
givenVars == <<episodes, playlistMode, onSelectEpisode, seasonId, hlsSupport, autoplay>>

\* the thumbnails of the progress bar
thumbVars == <<thumbnailsVtt, vttSheet, thumbnailCues, vttLoads, hoverTime>>

vars == <<schemaVars, engineVars, now, issued, ctlVars>>

-----------------------------------------------------------------------------
(* Bounds of the model *)

MaxIssued == 2

MaxElapsed == 1

(* Program constants *)

NEAR_END_SECONDS == 45

\* CONFIG.PROGRESS_THROTTLE_MS, a configured constant: the clock counts throttle intervals
PROGRESS_THROTTLE_MS == 1

\* Date.now() when the page loads; lastSavedAtRef starts at 0, a throttle interval
\* or more before
StartTime == PROGRESS_THROTTLE_MS + 1

-----------------------------------------------------------------------------
(* Values *)

NULL == "NULL"
NoRow == [none |-> TRUE]
NoError == <<NULL, FALSE>>
NaN == 0 - 1
Infinity == 0 - 2

Sec(n) == 2 * n

Max(a, b) == IF a >= b THEN a ELSE b

IsFinite(x) == x # NaN /\ x # Infinity

Truthy(v) == v # NULL /\ v # ""

TheUser == "user-0001"
\* supabase.auth.getUser() resolving to an error, and rejecting
AuthError == "getUser-error"
AuthThrows == "getUser-throws"
OtherUser == "user-0002"

ValidContent == "content-0001"
OtherContent == "content-0002"
ContentIds == {ValidContent, "m1"}

Episode1 == "episode-0001"
Episode3 == "episode-0003"
Episode2 == "episode-0002"
UnitIds == {NULL, Episode1, "e1"}

Slots == {1, 2}

-----------------------------------------------------------------------------
(* progress.ts: pure helpers *)

\* a lookup that takes whatever getUser produced for a user
getCurrentUserId_Unchecked(auth) == IF auth = NULL THEN NULL ELSE TheUser

\* getCurrentUserId: the id of the signed-in user; null when there is none, when
\* getUser reports an error and when it throws
getCurrentUserId(auth) ==
    IF auth \in {NULL, AuthError, AuthThrows} THEN NULL ELSE auth

toInt(value) ==
    IF ~IsFinite(value) THEN 0 ELSE Max(0, 2 * (value \div 2))

isUuidLike(v) == v # NULL /\ Len(v) >= 8

\* a near-end test that holds at the very end only
isNearEnd_AtEnd(positionSeconds, durationSeconds) ==
    LET pos == toInt(positionSeconds)
        dur == toInt(durationSeconds)
    IN  IF dur <= 0 THEN FALSE ELSE (dur - pos) <= 0

\* isNearEnd of progress.ts
isNearEnd(positionSeconds, durationSeconds) ==
    LET pos == toInt(positionSeconds)
        dur == toInt(durationSeconds)
    IN  IF dur <= 0 THEN FALSE ELSE (dur - pos) <= Sec(NEAR_END_SECONDS)

normalizeLoadedRow(row) ==
    IF row = NoRow THEN NoRow
    ELSE [position_seconds |-> toInt(row.progress_seconds),
          duration_seconds |-> toInt(row.duration_seconds),
          movie_id |-> row.movie_id,
          episode_id |-> row.episode_id,
          written_for |-> row.written_for]

-----------------------------------------------------------------------------
(* The remote table and the statements the engine sends to it *)

\* The rows of s at the indices idx with the greatest updated_at:
\* .order("updated_at", { ascending: false }).limit(1).maybeSingle()
Latest(s, idx) ==
    IF idx = {} THEN {NoRow}
    ELSE {s[i] : i \in {j \in idx : \A k \in idx : s[k].updated_at <= s[j].updated_at}}

\* the rows the query may return (a set: equal timestamps leave the order open)
selectExactProgressRow(s, userId, movieId, episodeId_) ==
    Latest(s, {i \in 1..Len(s) :
                /\ s[i].user_id = userId
                /\ s[i].movie_id = movieId
                /\ IF Truthy(episodeId_)
                   THEN s[i].episode_id = episodeId_
                   ELSE s[i].episode_id = NULL})

\* a query for the latest row of the user that does not filter on movie_id
selectLatestProgressForMovie_AnyMovie(s, userId, movieId) ==
    Latest(s, {i \in 1..Len(s) : s[i].user_id = userId})

selectLatestProgressForMovie(s, userId, movieId) ==
    Latest(s, {i \in 1..Len(s) : s[i].user_id = userId /\ s[i].movie_id = movieId})

\* mutant: the delete ignores the episode and always clears the title-level row
deleteWatchProgressRow_TitleOnly(s, userId, movieId, episodeId_) ==
    SelectSeq(s, LAMBDA r :
        ~(r.user_id = userId /\ r.movie_id = movieId /\ r.episode_id = NULL))

\* a delete that does not filter on user_id
deleteWatchProgressRow_AnyUser(s, userId, movieId, episodeId_) ==
    SelectSeq(s, LAMBDA r :
        ~(/\ r.movie_id = movieId
          /\ IF Truthy(episodeId_) THEN r.episode_id = episodeId_ ELSE r.episode_id = NULL))

\* deleteWatchProgressRow: the table after the delete
deleteWatchProgressRow(s, userId, movieId, episodeId_) ==
    SelectSeq(s, LAMBDA r :
        ~(/\ r.user_id = userId
          /\ r.movie_id = movieId
          /\ IF Truthy(episodeId_) THEN r.episode_id = episodeId_ ELSE r.episode_id = NULL))

\* the rows of the movie key (user_id, movie_id, episode_id IS NULL)
MovieRows(s, userId, movieId) ==
    {i \in 1..Len(s) :
        s[i].user_id = userId /\ s[i].movie_id = movieId /\ s[i].episode_id = NULL}

\* the rows of the conflict target (user_id, movie_id, episode_id)
EpisodeRows(s, userId, movieId, episodeId_) ==
    {i \in 1..Len(s) :
        s[i].user_id = userId /\ s[i].movie_id = movieId /\ s[i].episode_id = episodeId_}

Payload(userId, movieId, episodeId_, pos, dur, at, withDuration, wf) ==
    [user_id |-> userId, movie_id |-> movieId, episode_id |-> episodeId_,
     progress_seconds |-> pos,
     duration_seconds |-> IF withDuration THEN dur ELSE NaN,
     updated_at |-> at,
     written_for |-> wf]

\* update ... where user_id, movie_id, episode_id is null
updateMovieRow(s, userId, movieId, pos, dur, at, withDuration, wf) ==
    [i \in 1..Len(s) |->
        IF i \in MovieRows(s, userId, movieId)
        THEN [s[i] EXCEPT !.progress_seconds = pos,
                          !.duration_seconds = IF withDuration THEN dur ELSE @,
                          !.updated_at = at,
                          !.written_for = wf]
        ELSE s[i]]

insertMovieRow(s, userId, movieId, pos, dur, at, withDuration, wf) ==
    Append(s, Payload(userId, movieId, NULL, pos, dur, at, withDuration, wf))

\* upsert ... on conflict (user_id, movie_id, episode_id)
upsertEpisodeRow(s, userId, movieId, episodeId_, pos, dur, at, withDuration, wf) ==
    IF EpisodeRows(s, userId, movieId, episodeId_) = {}
    THEN Append(s, Payload(userId, movieId, episodeId_, pos, dur, at, withDuration, wf))
    ELSE [i \in 1..Len(s) |->
            IF i \in EpisodeRows(s, userId, movieId, episodeId_)
            THEN [s[i] EXCEPT !.progress_seconds = pos,
                              !.duration_seconds = IF withDuration THEN dur ELSE @,
                              !.updated_at = at,
                              !.written_for = wf]
            ELSE s[i]]

-----------------------------------------------------------------------------
(* Engine calls.  A call is one activation of saveProgress or loadProgress; *)
(* every await on the remote store is a separate step, so calls overlap.    *)

IdleCall ==
    [op |-> "none", pc |-> "idle", c |-> NULL, u |-> NULL, pos |-> 0, dur |-> 0,
     uid |-> NULL, at |-> 0, by |-> "none", solo |-> TRUE]

NoPrev ==
    [op |-> "none", c |-> NULL, u |-> NULL, pos |-> 0, dur |-> 0, out |-> "none"]

NoCall ==
    [op |-> "none", c |-> NULL, u |-> NULL, pos |-> 0, dur |-> 0, out |-> "none",
     res |-> NoRow, solo |-> TRUE, prev |-> NoPrev]

Busy(k) == calls[k].pc # "idle"

\* a call takes the first free slot
FreeSlot(k) == ~Busy(k) /\ \A j \in Slots : j < k => Busy(j)

Alone(k) == \A i \in Slots \ {k} : ~Busy(i)

\* a new call.  Ghost, kept for the calls of the environment: every call already in
\* flight stops being alone
Begin(k, rec) ==
    [j \in Slots |->
        IF j = k THEN [rec EXCEPT !.solo = rec.by # "env" \/ Alone(k)]
        ELSE IF Busy(j) /\ rec.by = "env" THEN [calls[j] EXCEPT !.solo = FALSE]
        ELSE calls[j]]

\* ghost: the completed call and its result; for the calls of the environment also
\* its arguments and the call that completed before it
Done(rec, out, res) ==
    IF rec.by = "env"
    THEN [op |-> rec.op, c |-> rec.c, u |-> rec.u, pos |-> rec.pos, dur |-> rec.dur,
          out |-> out, res |-> res, solo |-> rec.solo,
          prev |-> [op |-> lastDone.op, c |-> lastDone.c, u |-> lastDone.u,
                    pos |-> lastDone.pos, dur |-> lastDone.dur, out |-> lastDone.out]]
    ELSE [op |-> rec.op, c |-> rec.c, u |-> rec.u, pos |-> 0, dur |-> 0,
          out |-> out, res |-> res, solo |-> TRUE, prev |-> NoPrev]

\* the call in slot k returns: out is what it did, res what it resolves to
Finish(k, rec, out, res) ==
    /\ calls' = [calls EXCEPT ![k] = IdleCall]
    /\ lastDone' = Done(rec, out, res)

Goto(k, pc) ==
    /\ calls' = [calls EXCEPT ![k].pc = pc, ![k].at = now]
    /\ UNCHANGED lastDone

\* a call whose failed statement reaches its caller
Failure_Thrown(rec) == "thrown"

\* a statement on the store fails (its error is thrown): the catch of loadProgress,
\* of loadLatestSeriesProgress and of saveProgress logs it and the call returns
Failure(rec) == "failed"

\* the position and duration saveProgress works with
SavedPos(rec) == toInt(rec.pos)
SavedDur(rec) == toInt(rec.dur)

\* a save that does not look at the duration
SaveFirstStep_AnyDuration(contentId_, episodeId_, userId, positionSeconds, durationSeconds) ==
    IF ~isUuidLike(contentId_) THEN "invalid"
    ELSE IF userId = NULL THEN "unauth"
    ELSE IF isNearEnd(toInt(positionSeconds), toInt(durationSeconds)) THEN "delete"
    ELSE IF Truthy(episodeId_) /\ isUuidLike(episodeId_) THEN "upsert"
    ELSE "update"

\* saveProgress up to its first statement on the store
SaveFirstStep(contentId_, episodeId_, userId, positionSeconds, durationSeconds) ==
    IF ~isUuidLike(contentId_) THEN "invalid"
    ELSE IF userId = NULL THEN "unauth"
    ELSE IF toInt(durationSeconds) <= 0 THEN "rejected"
    ELSE IF isNearEnd(toInt(positionSeconds), toInt(durationSeconds)) THEN "delete"
    ELSE IF Truthy(episodeId_) /\ isUuidLike(episodeId_) THEN "upsert"
    ELSE "update"

\* saveProgress is called at time t: the call up to its first await on the store;
\* the seasonId of its arguments is not read
saveProgress(k, contentId_, seasonId_, episodeId_, positionSeconds, durationSeconds, t, by) ==
    /\ FreeSlot(k)
    /\ LET rec == [op |-> "save", pc |-> "idle", c |-> contentId_, u |-> episodeId_,
                   pos |-> positionSeconds, dur |-> durationSeconds,
                   uid |-> getCurrentUserId(principal), at |-> t, by |-> by,
                   solo |-> by # "env" \/ Alone(k)]
           first == SaveFirstStep(contentId_, episodeId_, getCurrentUserId(principal),
                                  positionSeconds, durationSeconds)
       IN  IF first \in {"invalid", "unauth", "rejected"}
           THEN Finish(k, rec, first, NoRow)
           ELSE /\ calls' = Begin(k, [rec EXCEPT !.pc = first])
                /\ UNCHANGED lastDone
    /\ UNCHANGED store

\* saveProgress, near end: deleteWatchProgressRow, errors swallowed
DeleteStep(k) ==
    /\ calls[k].pc = "delete"
    /\ \E ok \in BOOLEAN :
        LET rec == calls[k]
        IN  /\ store' = IF ok THEN deleteWatchProgressRow(store, rec.uid, rec.c, rec.u)
                        ELSE store
            /\ Finish(k, rec, IF ok THEN "deleted" ELSE Failure(rec), NoRow)
    /\ UNCHANGED <<schemaVars, now, issued, ctlVars>>

\* a fallback that answers the missing column of an update with an insert
AfterMissingColumn_Insert(pc) ==
    IF pc = "upsert" THEN "upsertNoDur" ELSE "insertNoDur"

\* isMissingDurationColumnError caught: the statement the save goes on with, the
\* same write without duration_seconds
AfterMissingColumn(pc) ==
    IF pc = "upsert" THEN "upsertNoDur" ELSE "updateNoDur"

\* saveEpisodeProgress: the upsert with duration_seconds, then without
UpsertStep(k, withDuration) ==
    /\ calls[k].pc = (IF withDuration THEN "upsert" ELSE "upsertNoDur")
    /\ \E ok \in BOOLEAN :
        LET rec == calls[k]
        IN  IF ~ok
            THEN store' = store /\ Finish(k, rec, Failure(rec), NoRow)
            ELSE IF withDuration /\ ~hasDurationColumn
            THEN store' = store
                 /\ calls' = [calls EXCEPT ![k].pc = AfterMissingColumn("upsert")]
                 /\ UNCHANGED lastDone
            ELSE /\ store' = upsertEpisodeRow(store, rec.uid, rec.c, rec.u, SavedPos(rec),
                                  SavedDur(rec), rec.at, withDuration, <<rec.c, rec.u>>)
                 /\ Finish(k, rec, "written", NoRow)
    /\ UNCHANGED <<schemaVars, now, issued, ctlVars>>

\* saveMovieProgress: updateMovieRow, and insertMovieRow when no row was updated
UpdateStep(k, withDuration) ==
    /\ calls[k].pc = (IF withDuration THEN "update" ELSE "updateNoDur")
    /\ \E ok \in BOOLEAN :
        LET rec == calls[k]
        IN  IF ~ok
            THEN store' = store /\ Finish(k, rec, Failure(rec), NoRow)
            ELSE IF withDuration /\ ~hasDurationColumn
            THEN store' = store /\ Goto(k, AfterMissingColumn("update"))
            ELSE IF MovieRows(store, rec.uid, rec.c) # {}
            THEN /\ store' = updateMovieRow(store, rec.uid, rec.c, SavedPos(rec),
                                  SavedDur(rec), rec.at, withDuration, <<rec.c, rec.u>>)
                 /\ Finish(k, rec, "written", NoRow)
            ELSE store' = store /\ Goto(k, IF withDuration THEN "insert" ELSE "insertNoDur")
    /\ UNCHANGED <<schemaVars, now, issued, ctlVars>>

\* a save that answers a unique violation of its insert by starting over: an
\* update and, when no row was updated, another insert
AfterUniqueViolation_StartOver(withDuration) ==
    IF withDuration THEN "update" ELSE "updateNoDur"

\* saveMovieProgress after a unique violation of its insert: one updateMovieRow
AfterUniqueViolation(withDuration) == IF withDuration THEN "retry" ELSE "retryNoDur"

\* saveMovieProgress: insertMovieRow
InsertStep(k, withDuration) ==
    /\ calls[k].pc = (IF withDuration THEN "insert" ELSE "insertNoDur")
    /\ \E ok \in BOOLEAN :
        LET rec == calls[k]
        IN  IF ~ok
            THEN store' = store /\ Finish(k, rec, Failure(rec), NoRow)
            ELSE IF partialIndex /\ MovieRows(store, rec.uid, rec.c) # {}
            THEN store' = store /\ Goto(k, AfterUniqueViolation(withDuration))
            ELSE /\ store' = insertMovieRow(store, rec.uid, rec.c, SavedPos(rec),
                                  SavedDur(rec), rec.at, withDuration, <<rec.c, rec.u>>)
                 /\ Finish(k, rec, "written", NoRow)
    /\ UNCHANGED <<schemaVars, now, issued, ctlVars>>

\* the update after a unique violation of the insert
RetryStep(k, withDuration) ==
    /\ calls[k].pc = (IF withDuration THEN "retry" ELSE "retryNoDur")
    /\ \E ok \in BOOLEAN :
        LET rec == calls[k]
        IN  IF ~ok
            THEN store' = store /\ Finish(k, rec, Failure(rec), NoRow)
            ELSE /\ store' = updateMovieRow(store, rec.uid, rec.c, SavedPos(rec),
                                  SavedDur(rec), rec.at, withDuration, <<rec.c, rec.u>>)
                 /\ Finish(k, rec,
                           IF MovieRows(store, rec.uid, rec.c) # {} THEN "written" ELSE "lost",
                           NoRow)
    /\ UNCHANGED <<schemaVars, now, issued, ctlVars>>

\* loadProgress is called: an invalid contentId resolves at once, anything else
\* awaits getCurrentUserId and the query
loadProgress(k, contentId_, seasonId_, episodeId_, by) ==
    /\ FreeSlot(k)
    /\ LET rec == [op |-> "load", pc |-> "select", c |-> contentId_, u |-> episodeId_,
                   pos |-> 0, dur |-> 0, uid |-> getCurrentUserId(principal), at |-> 0,
                   by |-> by,
                   solo |-> by # "env" \/ Alone(k)]
       IN  IF ~isUuidLike(contentId_)
           THEN Finish(k, rec, "invalid", NoRow)
           ELSE /\ calls' = Begin(k, rec)
                /\ UNCHANGED lastDone
    /\ UNCHANGED store

\* loadProgress: getCurrentUserId, then selectExactProgressRow with
\* duration_seconds, then without
SelectCore(k, withDuration) ==
    /\ calls[k].pc = (IF withDuration THEN "select" ELSE "selectNoDur")
    /\ \E ok \in BOOLEAN :
        LET rec == calls[k]
        IN  IF rec.uid = NULL
            THEN Finish(k, rec, "unauth", NoRow)
            ELSE IF ~ok
            THEN Finish(k, rec, Failure(rec), NoRow)
            ELSE IF withDuration /\ ~hasDurationColumn
            THEN calls' = [calls EXCEPT ![k].pc = "selectNoDur"] /\ UNCHANGED lastDone
            ELSE \E row \in selectExactProgressRow(store, rec.uid, rec.c, rec.u) :
                    Finish(k, rec, "loaded", normalizeLoadedRow(row))
    /\ UNCHANGED store

\* loadLatestSeriesProgress is called
loadLatestSeriesProgress(k, contentId_, by) ==
    /\ FreeSlot(k)
    /\ LET rec == [op |-> "latest", pc |-> "latest", c |-> contentId_, u |-> NULL,
                   pos |-> 0, dur |-> 0, uid |-> getCurrentUserId(principal), at |-> 0,
                   by |-> by, solo |-> by # "env" \/ Alone(k)]
       IN  IF ~isUuidLike(contentId_)
           THEN Finish(k, rec, "invalid", NoRow)
           ELSE /\ calls' = Begin(k, rec)
                /\ UNCHANGED lastDone
    /\ UNCHANGED store

\* loadLatestSeriesProgress: getCurrentUserId, then selectLatestProgressForMovie
\* with duration_seconds, then without
LatestStep(k, withDuration) ==
    /\ calls[k].pc = (IF withDuration THEN "latest" ELSE "latestNoDur")
    /\ \E ok \in BOOLEAN :
        LET rec == calls[k]
        IN  IF rec.uid = NULL
            THEN Finish(k, rec, "unauth", NoRow)
            ELSE IF ~ok
            THEN Finish(k, rec, Failure(rec), NoRow)
            ELSE IF withDuration /\ ~hasDurationColumn
            THEN calls' = [calls EXCEPT ![k].pc = "latestNoDur"] /\ UNCHANGED lastDone
            ELSE \E row \in selectLatestProgressForMovie(store, rec.uid, rec.c) :
                    Finish(k, rec, "loaded", normalizeLoadedRow(row))
    /\ UNCHANGED <<store, schemaVars, now, issued, ctlVars>>

-----------------------------------------------------------------------------
(* The component: closures, effects and handlers *)

NoClosure == [live |-> FALSE]

NoTime == 0 - 1

\* a load of the environment (no component waits for it)
SelectStep(k, withDuration) ==
    /\ loads[k] = NoClosure
    /\ SelectCore(k, withDuration)
    /\ UNCHANGED <<schemaVars, now, issued, ctlVars>>

\* a context that is a series whatever the category
isSeriesContextOf_Always(cat, episodeId_) == TRUE

\* useMemo isSeriesContext: the category once fetched, else Boolean(episodeId)
isSeriesContextOf(cat, episodeId_) ==
    IF cat = "series" THEN TRUE
    ELSE IF cat = "movie" THEN FALSE
    ELSE Truthy(episodeId_)

isSeriesContext == isSeriesContextOf(contentCategoryFromDb, episodeId)

\* a controller that loads and saves a series without an episode like a movie
seriesWithoutEpisode_Never(series, episodeId_) == FALSE

\* isSeriesContext && !episodeId: the guard of the Continue Watching load effect,
\* of onTimeUpdateSave and of flush
seriesWithoutEpisode(series, episodeId_) == series /\ ~Truthy(episodeId_)

\* a flush that takes any duration
ValidDuration_Always(d) == TRUE

\* Number.isFinite(total) && total > 0, for total = v.duration || 0
ValidDuration(d) == IsFinite(d) /\ d > 0

\* readProgressRowMeta of a loaded row: the row carries movie_id and episode_id,
\* and neither content_id / contentId nor season_id / seasonId
readProgressRowMeta(row) ==
    [contentId |-> NULL, seasonId |-> NULL, episodeId |-> row.episode_id]

\* a match that wants the season of the row to be the season given
isStrictEpisodeProgressRowMatch_SeasonBound(row, contentId_, episodeId_, seasonId_) ==
    LET meta == readProgressRowMeta(row)
    IN  /\ Truthy(episodeId_)
        /\ Truthy(meta.episodeId)
        /\ meta.episodeId = episodeId_
        /\ seasonId_ # NULL => meta.seasonId = seasonId_

\* isStrictEpisodeProgressRowMatch with requireEpisodeId
isStrictEpisodeProgressRowMatch(row, contentId_, episodeId_, seasonId_) ==
    LET meta == readProgressRowMeta(row)
    IN  /\ meta.contentId # NULL => meta.contentId = contentId_
        /\ Truthy(episodeId_)
        /\ Truthy(meta.episodeId)
        /\ meta.episodeId = episodeId_
        /\ ~(seasonId_ # NULL /\ meta.seasonId # NULL /\ seasonId_ # meta.seasonId)

\* a restore that judges no record near the end
nearEnd_Never(pos, total) == FALSE

\* the restore effect's nearEnd
nearEnd(pos, total) == total > 0 /\ total - pos <= Sec(NEAR_END_SECONDS)

\* onTimeUpdateSave's throttle: now - lastSavedAtRef.current < CONFIG.PROGRESS_THROTTLE_MS
Throttled(now_, lastSavedAt) == now_ - lastSavedAt < PROGRESS_THROTTLE_MS

\* a cleanup that cancels nothing
CancelLoads_None == loads

\* cleanup of the restore effect: cancelled = true in the closure of its last run
CancelLoads ==
    [k \in Slots |-> IF loads[k].live THEN [loads[k] EXCEPT !.cancelled = TRUE]
                     ELSE loads[k]]

\* a seasonNumber or episodeNumber that is missing (null or undefined)
NoNumber == 0 - 1

\* v ?? d for a number
Coalesce(v, d) == IF v = NoNumber THEN d ELSE v

\* String(a).localeCompare(String(b)) for the ids of the model: their order is
\* the order of their last digit
localeCompare(a, b) ==
    LET rank(id) == CASE id = Episode1 -> 1
                      [] id = Episode2 -> 2
                      [] id = Episode3 -> 3
                      [] OTHER -> 0
    IN  rank(a) - rank(b)

\* a comparator without the tie-break on the id
compareEpisodes_NoTieBreak(a, b) ==
    LET sa == Coalesce(a.seasonNumber, 1)
        sb == Coalesce(b.seasonNumber, 1)
        ea == Coalesce(a.episodeNumber, 0)
        eb == Coalesce(b.episodeNumber, 0)
    IN  IF sa # sb THEN sa - sb ELSE ea - eb

\* the comparator of orderedEpisodes
compareEpisodes(a, b) ==
    LET sa == Coalesce(a.seasonNumber, 1)
        sb == Coalesce(b.seasonNumber, 1)
        ea == Coalesce(a.episodeNumber, 0)
        eb == Coalesce(b.episodeNumber, 0)
    IN  IF sa # sb THEN sa - sb
        ELSE IF ea # eb THEN ea - eb
        ELSE localeCompare(a.id, b.id)

\* Array.prototype.sort is stable: an element goes behind every element that does
\* not compare greater than it
InsertSorted(sorted, e) ==
    LET after == {i \in DOMAIN sorted : compareEpisodes(sorted[i], e) > 0}
        at == IF after = {} THEN Len(sorted) + 1
              ELSE CHOOSE i \in after : \A j \in after : i <= j
    IN  SubSeq(sorted, 1, at - 1) \o <<e>> \o SubSeq(sorted, at, Len(sorted))

RECURSIVE sortEpisodes(_)
sortEpisodes(list) ==
    IF list = <<>> THEN <<>>
    ELSE CHOOSE result \in
            {InsertSorted(sorted, list[Len(list)]) :
                sorted \in {sortEpisodes(SubSeq(list, 1, Len(list) - 1))}} : TRUE

\* a playlist in the order the caller gave
orderedEpisodes_AsGiven(list) == list

\* useMemo orderedEpisodes: [...episodes].sort(...)
orderedEpisodes(list) == sortEpisodes(list)

\* useMemo currentEpisodeIndexInPlaylist: findIndex, 0 for the -1 of the source
currentEpisodeIndexInPlaylist(list, episodeId_) ==
    LET ordered == orderedEpisodes(list)
        found == {i \in DOMAIN ordered : ordered[i].id = episodeId_}
    IN  IF ~Truthy(episodeId_) \/ found = {} THEN 0
        ELSE CHOOSE i \in found : \A j \in found : i <= j

NoEpisode == [id |-> NULL, seasonNumber |-> NoNumber, episodeNumber |-> NoNumber]

\* a navigator that goes on with the first entry after the last
nextEpisodeInPlaylist_Wrap(list, episodeId_) ==
    LET ordered == orderedEpisodes(list)
        idx == currentEpisodeIndexInPlaylist(list, episodeId_)
    IN  IF idx = 0 THEN NoEpisode ELSE ordered[(idx % Len(ordered)) + 1]

\* useMemo nextEpisodeInPlaylist
nextEpisodeInPlaylist(list, episodeId_) ==
    LET ordered == orderedEpisodes(list)
        idx == currentEpisodeIndexInPlaylist(list, episodeId_)
    IN  IF idx = 0 \/ idx + 1 > Len(ordered) THEN NoEpisode ELSE ordered[idx + 1]

\* a cleanup that releases nothing
ReleaseBinding_Keep(b) == b

\* cleanup of the HLS setup effect: hls.destroy(), video.pause(),
\* video.removeAttribute("src"), video.load()
ReleaseBinding(b) ==
    [hlsRef |-> NULL, videoSrc |-> NULL,
     bindings |-> IF b.hlsRef # NULL THEN b.bindings - 1 ELSE b.bindings]

\* body of the HLS setup effect: nothing for an empty src; else the instance still
\* referenced is destroyed, the src of the video removed, and the source bound by
\* hls.js, by the browser, or not at all
SetupBinding(b, newSrc, support) ==
    IF ~Truthy(newSrc) THEN b
    ELSE LET live == IF b.hlsRef # NULL THEN b.bindings - 1 ELSE b.bindings
         IN  IF support = "hlsjs"
             THEN [hlsRef |-> newSrc, videoSrc |-> "blob:hls", bindings |-> live + 1]
             ELSE IF support = "native"
             THEN [hlsRef |-> NULL, videoSrc |-> newSrc, bindings |-> live]
             ELSE [hlsRef |-> NULL, videoSrc |-> NULL, bindings |-> live]

Binding == [hlsRef |-> hlsRef, videoSrc |-> videoSrc, bindings |-> bindings]

\* A render is committed with (possibly) new props and state: the HLS setup effect
\* runs when src changed, then the Continue Watching (load) effect when one of its
\* dependencies changed.
Commit(newSrc, newContentId, newEpisodeId, newCategory, newDuration) ==
    LET newSeries == isSeriesContextOf(newCategory, newEpisodeId)
        attach == newSrc # src
        rerun == \/ newDuration # duration
                 \/ newContentId # contentId
                 \/ newEpisodeId # episodeId
                 \/ newSeries # isSeriesContext
        bound == IF attach THEN SetupBinding(ReleaseBinding(Binding), newSrc, hlsSupport)
                 ELSE Binding
        restored1 == IF attach /\ Truthy(newSrc) THEN FALSE ELSE restoredRef
        body == rerun /\ newDuration # 0 /\ IsFinite(newDuration) /\ ~restored1
        closure == [live |-> TRUE, cancelled |-> FALSE, duration |-> newDuration,
                    series |-> newSeries, seasonId |-> seasonId]
    IN  /\ mounted
        /\ src' = newSrc
        /\ hlsRef' = bound.hlsRef
        /\ videoSrc' = bound.videoSrc
        /\ bindings' = bound.bindings
        /\ contentId' = newContentId
        /\ episodeId' = newEpisodeId
        /\ contentCategoryFromDb' = newCategory
        /\ duration' = newDuration
        /\ seeks' = IF attach THEN 0 ELSE seeks
        /\ IF ~body
           THEN /\ restoredRef' = restored1
                /\ loads' = IF rerun THEN CancelLoads ELSE loads
                /\ UNCHANGED <<calls, lastDone>>
           ELSE IF seriesWithoutEpisode(newSeries, newEpisodeId)
           THEN /\ restoredRef' = TRUE
                /\ loads' = CancelLoads
                /\ UNCHANGED <<calls, lastDone>>
           ELSE \E k \in Slots :
                /\ loadProgress(k, newContentId, seasonId, newEpisodeId, "restore")
                /\ IF isUuidLike(newContentId)
                   THEN /\ restoredRef' = restored1
                        /\ loads' = [CancelLoads EXCEPT ![k] = closure]
                   ELSE /\ restoredRef' = TRUE
                        /\ loads' = CancelLoads
        /\ UNCHANGED <<store, now, issued, category, mediaDuration, lastSavedAtRef,
                       feedback, tickSavedAt, reloaded, handled, errorLog, selected,
                       mounted>>
        /\ UNCHANGED <<schemaVars, givenVars, thumbVars>>

\* the video events effect is run again by a render with newEpisodeId and
\* newCategory: isSeriesContext or nextEpisodeInPlaylist has changed
VideoEventsRerun(newEpisodeId, newCategory) ==
    \/ isSeriesContextOf(newCategory, newEpisodeId) # isSeriesContext
    \/ nextEpisodeInPlaylist(episodes, newEpisodeId) # nextEpisodeInPlaylist(episodes, episodeId)

\* the video events effect, run again, calls v.play() when autoplay is set
PlaysAfterRender(newEpisodeId, newCategory) ==
    IF autoplay /\ VideoEventsRerun(newEpisodeId, newCategory) THEN ~plays ELSE plays

\* an onMeta that starts playback for the autoplay of the props only
onMetaPlays_InitialOnly(auto, forced) == auto

\* onMeta: does it call v.play()
onMetaPlays(auto, forced) == auto \/ forced

Sources == {"src-1", "src-2"}

PlayerUnits == {NULL, Episode1, "e1"}

\* the parent passes new props: another source, another unit, or both
PropsChange(newSrc, newEpisodeId) ==
    /\ <<newSrc, newEpisodeId>> # <<src, episodeId>>
    /\ Commit(newSrc, contentId, newEpisodeId, contentCategoryFromDb, duration)
    /\ vDuration' = IF newSrc # src THEN NaN ELSE vDuration
    /\ vCurrentTime' = IF newSrc # src THEN 0 ELSE vCurrentTime
    /\ plays' = PlaysAfterRender(newEpisodeId, contentCategoryFromDb)
    /\ UNCHANGED playlistNextAutoplayRef

\* the fetch of movies.category resolves
CategoryLoaded ==
    /\ contentCategoryFromDb = NULL
    /\ Commit(src, contentId, episodeId, category, duration)
    /\ plays' = PlaysAfterRender(episodeId, category)
    /\ UNCHANGED <<vDuration, vCurrentTime, playlistNextAutoplayRef>>

\* loadedmetadata / durationchange: onMeta, setDuration(v.duration || 0); a play
\* forced by the playlist is started and its flag cleared
Meta(d) ==
    /\ vDuration # d
    /\ d # NaN => videoSrc # NULL
    /\ vDuration' = d
    /\ plays' = IF onMetaPlays(autoplay, playlistNextAutoplayRef) THEN ~plays ELSE plays
    /\ playlistNextAutoplayRef' = FALSE
    /\ Commit(src, contentId, episodeId, contentCategoryFromDb, IF d = NaN THEN 0 ELSE d)
    /\ UNCHANGED vCurrentTime

\* a restore that also applies a record at position 0
RestoreApplies_AnyPosition(cl, row, c, u, seasonId_) ==
    LET pos == IF row = NoRow THEN 0 ELSE row.position_seconds
        total == IF row = NoRow THEN 0 ELSE row.duration_seconds
    IN  /\ ~cl.cancelled
        /\ row # NoRow
        /\ (cl.series /\ Truthy(u))
                => isStrictEpisodeProgressRowMatch(row, c, u, seasonId_)
        /\ ~nearEnd(pos, total)
        /\ pos < Max(0, cl.duration - Sec(3))

\* the restore effect after await loadProgress: does it seek to the row, for the
\* closure cl of a load for (c, u) with the season seasonId_
RestoreApplies(cl, row, c, u, seasonId_) ==
    LET pos == IF row = NoRow THEN 0 ELSE row.position_seconds
        total == IF row = NoRow THEN 0 ELSE row.duration_seconds
    IN  /\ ~cl.cancelled
        /\ row # NoRow
        /\ (cl.series /\ Truthy(u))
                => isStrictEpisodeProgressRowMatch(row, c, u, seasonId_)
        /\ ~nearEnd(pos, total)
        /\ pos > 0
        /\ pos < Max(0, cl.duration - Sec(3))

\* the continuation of the restore effect after await loadProgress
Continuation(k, row) ==
    LET cl == loads[k]
        pos == IF row = NoRow THEN 0 ELSE row.position_seconds
        apply == RestoreApplies(cl, row, calls[k].c, calls[k].u, cl.seasonId)
    IN  /\ restoredRef' = TRUE
        /\ vCurrentTime' = IF apply THEN pos ELSE vCurrentTime
        /\ feedback' = IF apply THEN "Continuar en" ELSE feedback
        /\ seeks' = IF apply THEN seeks + 1 ELSE seeks
        /\ loads' = [loads EXCEPT ![k] = NoClosure]
        /\ UNCHANGED <<src, contentId, episodeId, contentCategoryFromDb, category,
                       mediaDuration, vDuration, duration, lastSavedAtRef, tickSavedAt,
                       reloaded, handled, givenVars, errorLog, thumbVars, plays, bindVars,
                       selected, mounted,
                       playlistNextAutoplayRef>>

\* the loadProgress of a restore effect advances; when it resolves the continuation runs
RestoreLoadStep(k, withDuration) ==
    /\ loads[k] # NoClosure
    /\ SelectCore(k, withDuration)
    /\ IF calls'[k].pc = "idle"
       THEN Continuation(k, lastDone'.res)
       ELSE UNCHANGED ctlVars
    /\ UNCHANGED <<schemaVars, now, issued>>

\* timeupdate: onTimeUpdateSave
TimeUpdate(t) ==
    /\ mounted
    /\ (vDuration = NaN) <=> (t = 0)
    /\ vCurrentTime' = t
    /\ handled' = ~handled
    /\ IF Throttled(now, lastSavedAtRef)
       THEN UNCHANGED <<engineVars, lastSavedAtRef, tickSavedAt>>
       ELSE /\ lastSavedAtRef' = now
            /\ IF ValidDuration(vDuration) /\ ~seriesWithoutEpisode(isSeriesContext, episodeId)
               THEN /\ \E k \in Slots :
                        saveProgress(k, contentId, seasonId, episodeId, t, vDuration, now,
                                     "timeupdate")
                    /\ tickSavedAt' = now
               ELSE UNCHANGED <<engineVars, tickSavedAt>>
    /\ UNCHANGED <<schemaVars, now, issued, src, contentId, episodeId,
                   contentCategoryFromDb, category, mediaDuration, vDuration, duration,
                   restoredRef, loads, feedback, seeks, reloaded, givenVars, errorLog, thumbVars,
                   plays, bindVars,
                   selected, mounted, playlistNextAutoplayRef>>

FlushEvents == {"pause", "beforeunload", "hidden"}

\* pause, beforeunload, visibilitychange to hidden: flush
Flush(kind) ==
    /\ mounted
    /\ kind \in FlushEvents
    /\ handled' = ~handled
    /\ IF ValidDuration(vDuration) /\ ~seriesWithoutEpisode(isSeriesContext, episodeId)
       THEN \E k \in Slots :
                saveProgress(k, contentId, seasonId, episodeId, vCurrentTime, vDuration, now,
                             "flush")
       ELSE UNCHANGED engineVars
    /\ UNCHANGED <<schemaVars, now, issued, src, contentId, episodeId,
                   contentCategoryFromDb, category, mediaDuration, vDuration,
                   vCurrentTime, duration, restoredRef, lastSavedAtRef, loads, feedback,
                   seeks, tickSavedAt, reloaded, givenVars, errorLog, thumbVars, plays, bindVars,
                   selected, mounted,
                   playlistNextAutoplayRef>>

\* time passes
Pass ==
    /\ now < StartTime + MaxElapsed
    /\ now' = now + 1
    /\ UNCHANGED <<schemaVars, engineVars, issued, ctlVars>>

(* The thumbnails of the progress bar.  The times of cues and of the pointer are in
   tenths of a second (4.9 s is 49). *)

Ds(n) == 10 * n

\* a >= b and a < b of two numbers: false when either is NaN
NumGE(a, b) == a # NaN /\ b # NaN /\ a >= b
NumLT(a, b) == a # NaN /\ b # NaN /\ a < b

\* a timestamp token is the sequence of the numbers between its colons (NaN for text
\* that is no number); its last part is in tenths of a second
parseTimeToSeconds(t) ==
    IF Len(t) = 3
    THEN IF \E i \in 1..3 : t[i] = NaN THEN NaN ELSE t[1] * Ds(3600) + t[2] * Ds(60) + t[3]
    ELSE IF Len(t) = 2
         THEN IF \E i \in 1..2 : t[i] = NaN THEN NaN ELSE t[1] * Ds(60) + t[2]
         ELSE IF Len(t) = 1 /\ t[1] # NaN THEN t[1] ELSE 0

\* the trimmed lines of a cue sheet: an empty line, the header WEBVTT, a line with
\* "-->" between two timestamp tokens, or a line of other text, which as a payload is
\* a url and the four numbers of its #xywh fragment (<<>> when it has none)
BlankLine == [kind |-> "blank", startRaw |-> <<>>, endRaw |-> <<>>, url |-> "", xywh |-> <<>>]
HeaderLine ==
    [kind |-> "header", startRaw |-> <<>>, endRaw |-> <<>>, url |-> "WEBVTT", xywh |-> <<>>]
TimingLine(startRaw, endRaw) ==
    [kind |-> "timing", startRaw |-> startRaw, endRaw |-> endRaw, url |-> "-->",
     xywh |-> <<>>]
TextLine(url, xywh) ==
    [kind |-> "text", startRaw |-> <<>>, endRaw |-> <<>>, url |-> url, xywh |-> xywh]

\* payload urls that are absolute
AbsoluteUrls == {"https://img/1.jpg", "https://img/2.jpg"}

\* new URL(payloadUrl, vttUrl).toString()
resolveMaybeRelativeUrl(vttUrl, payloadUrl) ==
    IF payloadUrl \in AbsoluteUrls THEN payloadUrl
    ELSE IF vttUrl = "https://cdn/a/thumbs.vtt" THEN "https://cdn/a/" \o payloadUrl
    ELSE IF vttUrl = "https://cdn/b/thumbs.vtt" THEN "https://cdn/b/" \o payloadUrl
    ELSE payloadUrl

\* a search of the payload that skips one empty line at most
SkipBlank_One(lines, i) ==
    IF i <= Len(lines) /\ lines[i].kind = "blank" THEN i + 1 ELSE i

\* while (i < lines.length && !lines[i].trim()) i++
RECURSIVE SkipBlank(_, _)
SkipBlank(lines, i) ==
    IF i <= Len(lines) /\ lines[i].kind = "blank" THEN SkipBlank(lines, i + 1) ELSE i

\* the loop of loadThumbnailVtt from line i on, with the cues pushed so far
RECURSIVE parseCueLines(_, _, _, _)
parseCueLines(vttUrl, lines, i, cues) ==
    IF i > Len(lines) THEN cues
    ELSE IF lines[i].kind \in {"blank", "header"}
         THEN parseCueLines(vttUrl, lines, i + 1, cues)
         ELSE LET ti == IF lines[i].kind = "timing" THEN i ELSE i + 1
              IN  IF ti > Len(lines) THEN cues
                  ELSE IF lines[ti].kind # "timing"
                       THEN parseCueLines(vttUrl, lines, ti + 1, cues)
                       ELSE LET p == SkipBlank(lines, ti + 1)
                            IN  IF p > Len(lines) THEN cues
                                ELSE parseCueLines(vttUrl, lines, p + 1,
                                        Append(cues,
                                               [start |-> parseTimeToSeconds(lines[ti].startRaw),
                                                end |-> parseTimeToSeconds(lines[ti].endRaw),
                                                url |-> resolveMaybeRelativeUrl(vttUrl,
                                                                                lines[p].url),
                                                xywh |-> lines[p].xywh]))

\* what the fetch of a cue sheet yields: no response, a response that is not ok, or
\* a response with text
Unreachable == [kind |-> "unreachable", lines |-> <<>>]
NotOk == [kind |-> "status", lines |-> <<>>]
Text(lines) == [kind |-> "text", lines |-> lines]

\* does loadThumbnailVtt throw
loadThumbnailVttThrows(sheet) == sheet.kind # "text"

\* the cues loadThumbnailVtt resolves to
loadThumbnailVtt(vttUrl, sheet) == parseCueLines(vttUrl, sheet.lines, 1, <<>>)

NoCue == [none |-> TRUE]

\* a lookup whose intervals include their end
RECURSIVE findThumbnailCue_Closed(_, _)
findThumbnailCue_Closed(cues, timeSec) ==
    IF cues = <<>> THEN NoCue
    ELSE IF NumGE(timeSec, Head(cues).start) /\ ~NumLT(Head(cues).end, timeSec)
         THEN Head(cues)
         ELSE IF Len(cues) = 1 THEN Head(cues)
              ELSE findThumbnailCue_Closed(Tail(cues), timeSec)

\* findThumbnailCue: the loop over the cues, then the last cue or null
RECURSIVE findThumbnailCue(_, _)
findThumbnailCue(cues, timeSec) ==
    IF cues = <<>> THEN NoCue
    ELSE IF NumGE(timeSec, Head(cues).start) /\ NumLT(timeSec, Head(cues).end)
         THEN Head(cues)
         ELSE IF Len(cues) = 1 THEN Head(cues)
              ELSE findThumbnailCue(Tail(cues), timeSec)

\* useMemo hoverCue
hoverCue ==
    IF hoverTime = NoTime \/ Len(thumbnailCues) = 0 THEN NoCue
    ELSE findThumbnailCue(thumbnailCues, hoverTime)

NoVttLoad == [live |-> FALSE]

\* a cleanup of the thumbnails effect that cancels nothing
CancelVttLoads_None == vttLoads

\* cleanup of the thumbnails effect: cancelled = true
CancelVttLoads ==
    [k \in Slots |-> IF vttLoads[k].live THEN [vttLoads[k] EXCEPT !.cancelled = TRUE]
                     ELSE vttLoads[k]]

\* the thumbnails effect for the cue sheet url, after the cleanup of its last run
ThumbnailsEffect(url, cancelledLoads) ==
    IF ~Truthy(url)
    THEN /\ thumbnailCues' = <<>>
         /\ vttLoads' = cancelledLoads
    ELSE /\ UNCHANGED thumbnailCues
         /\ \E k \in Slots :
               /\ ~cancelledLoads[k].live
               /\ \A j \in Slots : j < k => cancelledLoads[j].live
               /\ vttLoads' = [cancelledLoads EXCEPT
                                 ![k] = [live |-> TRUE, cancelled |-> FALSE, url |-> url]]

\* a component without thumbnails
NoThumbnails ==
    /\ thumbnailsVtt = NULL
    /\ vttSheet = Unreachable
    /\ thumbnailCues = <<>>
    /\ vttLoads = [k \in Slots |-> NoVttLoad]
    /\ hoverTime = NoTime

\* the parent passes another cue sheet url
VttChange(url) ==
    /\ mounted
    /\ url # thumbnailsVtt
    /\ thumbnailsVtt' = url
    /\ ThumbnailsEffect(url, CancelVttLoads)
    /\ UNCHANGED <<schemaVars, engineVars, now, issued, src, contentId, episodeId,
                   contentCategoryFromDb, category, mediaDuration, vDuration, vCurrentTime,
                   duration, restoredRef, lastSavedAtRef, loads, feedback, seeks,
                   tickSavedAt, reloaded, handled, givenVars, errorLog, plays, bindVars, selected,
                   mounted, playlistNextAutoplayRef, vttSheet, hoverTime>>

\* await loadThumbnailVtt settles in the closure of slot k
VttResolve(k) ==
    /\ vttLoads[k].live
    /\ vttLoads' = [vttLoads EXCEPT ![k] = NoVttLoad]
    /\ thumbnailCues' =
          IF vttLoads[k].cancelled THEN thumbnailCues
          ELSE IF loadThumbnailVttThrows(vttSheet) THEN <<>>
               ELSE loadThumbnailVtt(vttLoads[k].url, vttSheet)
    /\ UNCHANGED <<schemaVars, engineVars, now, issued, src, contentId, episodeId,
                   contentCategoryFromDb, category, mediaDuration, vDuration, vCurrentTime,
                   duration, restoredRef, lastSavedAtRef, loads, feedback, seeks,
                   tickSavedAt, reloaded, handled, givenVars, errorLog, plays, bindVars, selected,
                   mounted, playlistNextAutoplayRef, thumbnailsVtt, vttSheet, hoverTime>>

\* onProgressMouseMove at the time t of the bar
ProgressMouseMove(t) ==
    /\ mounted
    /\ duration # 0
    /\ t <= 5 * duration
    /\ hoverTime' = t
    /\ UNCHANGED <<schemaVars, engineVars, now, issued, src, contentId, episodeId,
                   contentCategoryFromDb, category, mediaDuration, vDuration, vCurrentTime,
                   duration, restoredRef, lastSavedAtRef, loads, feedback, seeks,
                   tickSavedAt, reloaded, handled, givenVars, errorLog, plays, bindVars, selected,
                   mounted, playlistNextAutoplayRef, thumbnailsVtt, vttSheet,
                   thumbnailCues, vttLoads>>

\* onProgressMouseLeave
ProgressMouseLeave ==
    /\ mounted
    /\ hoverTime # NoTime
    /\ hoverTime' = NoTime
    /\ UNCHANGED <<schemaVars, engineVars, now, issued, src, contentId, episodeId,
                   contentCategoryFromDb, category, mediaDuration, vDuration, vCurrentTime,
                   duration, restoredRef, lastSavedAtRef, loads, feedback, seeks,
                   tickSavedAt, reloaded, handled, givenVars, errorLog, plays, bindVars, selected,
                   mounted, playlistNextAutoplayRef, thumbnailsVtt, vttSheet,
                   thumbnailCues, vttLoads>>

\* the page is reloaded with the same props: the component is mounted anew and
\* no continuation of the old page runs any more
Reload ==
    /\ calls' = [k \in Slots |-> IdleCall]
    /\ loads' = [k \in Slots |-> NoClosure]
    /\ contentCategoryFromDb' = NULL
    /\ vDuration' = NaN
    /\ vCurrentTime' = 0
    /\ duration' = 0
    /\ restoredRef' = FALSE
    /\ lastSavedAtRef' = 0
    /\ feedback' = NULL
    /\ seeks' = 0
    /\ reloaded' = TRUE
    /\ playlistNextAutoplayRef' = FALSE
    /\ plays' = IF autoplay THEN ~plays ELSE plays
    /\ hoverTime' = NoTime
    /\ thumbnailCues' = <<>>
    /\ vttLoads' = [k \in Slots |->
                      IF k = 1 /\ Truthy(thumbnailsVtt)
                      THEN [live |-> TRUE, cancelled |-> FALSE, url |-> thumbnailsVtt]
                      ELSE NoVttLoad]
    /\ LET bound == SetupBinding(ReleaseBinding(Binding), src, hlsSupport)
       IN  hlsRef' = bound.hlsRef /\ videoSrc' = bound.videoSrc
           /\ bindings' = bound.bindings
    /\ UNCHANGED <<schemaVars, store, lastDone, now, issued, src, contentId, episodeId,
                   category, mediaDuration, tickSavedAt, handled, givenVars, errorLog,
                   selected, mounted, thumbnailsVtt, vttSheet>>

\* ended: onEnded
Ended ==
    /\ mounted
    /\ ValidDuration(vDuration)
    /\ handled' = ~handled
    /\ LET next == nextEpisodeInPlaylist(episodes, episodeId)
           advance == playlistMode /\ isSeriesContext /\ next # NoEpisode /\ onSelectEpisode
       IN  \/ /\ advance
              /\ playlistNextAutoplayRef' = TRUE
              /\ feedback' = "Siguiente episodio"
              /\ selected' = next.id
           \/ /\ ~advance
              /\ feedback' = "Finalizado"
              /\ UNCHANGED <<playlistNextAutoplayRef, selected>>
    /\ vCurrentTime' = vDuration
    /\ UNCHANGED <<now, issued, src, contentId, episodeId, contentCategoryFromDb,
                   category, mediaDuration, vDuration, duration, restoredRef,
                   lastSavedAtRef, loads, seeks, tickSavedAt, reloaded, errorLog, plays,
                   mounted>>
    /\ UNCHANGED <<schemaVars, engineVars, givenVars, thumbVars, bindVars>>

\* the component is unmounted: the cleanups of its effects run; the listeners of
\* the flush are removed and no save is issued
Unmount ==
    /\ mounted
    /\ mounted' = FALSE
    /\ LET bound == ReleaseBinding(Binding)
       IN  hlsRef' = bound.hlsRef /\ videoSrc' = bound.videoSrc
           /\ bindings' = bound.bindings
    /\ loads' = CancelLoads
    /\ vttLoads' = CancelVttLoads
    /\ vDuration' = NaN
    /\ vCurrentTime' = 0
    /\ UNCHANGED <<schemaVars, engineVars, now, issued, src, contentId, episodeId,
                   contentCategoryFromDb, category, mediaDuration, duration, restoredRef,
                   lastSavedAtRef, feedback, seeks, tickSavedAt, reloaded, handled,
                   givenVars, errorLog, plays, selected, playlistNextAutoplayRef, thumbnailsVtt,
                   vttSheet, thumbnailCues, hoverTime>>

-----------------------------------------------------------------------------
(* The engine on its own: saves and loads of an environment *)

\* (position, duration) pairs a save is called with: 0.5 s of 1200 s, 1160 s of
\* 1200 s (near the end), 0.5 s of 0.5 s
SaveArgs == {<<1, Sec(1200)>>, <<Sec(1160), Sec(1200)>>, <<1, 1>>}

\* a row written before the model starts
ExternalRow(userId, episodeId_, pos, dur) ==
    [user_id |-> userId, movie_id |-> ValidContent, episode_id |-> episodeId_,
     progress_seconds |-> pos, duration_seconds |-> dur, updated_at |-> 0,
     written_for |-> <<ValidContent, episodeId_>>]

InitialStores ==
    {<<>>,
     <<ExternalRow(OtherUser, NULL, Sec(300), Sec(1200)),
       ExternalRow(TheUser, Episode1, Sec(300), Sec(1200))>>}

\* no component is mounted
InitNoPlayer ==
    /\ src = "src-1"
    /\ contentId = ValidContent
    /\ episodeId = NULL
    /\ contentCategoryFromDb = NULL
    /\ category = "movie"
    /\ mediaDuration = NaN
    /\ vDuration = NaN
    /\ vCurrentTime = 0
    /\ duration = 0
    /\ restoredRef = FALSE
    /\ lastSavedAtRef = 0
    /\ loads = [k \in Slots |-> NoClosure]
    /\ feedback = NULL
    /\ seeks = 0
    /\ tickSavedAt = NoTime
    /\ reloaded = FALSE
    /\ handled = FALSE
    /\ episodes = <<>>
    /\ playlistMode = TRUE
    /\ onSelectEpisode = FALSE
    /\ playlistNextAutoplayRef = FALSE
    /\ selected = NULL
    /\ seasonId = NULL
    /\ mounted = FALSE
    /\ NoThumbnails
    /\ errorLog = NoError
    /\ autoplay = FALSE
    /\ plays = FALSE
    /\ hlsSupport = "hlsjs"
    /\ hlsRef = NULL
    /\ videoSrc = NULL
    /\ bindings = 0

InitEngine ==
    /\ store \in InitialStores
    /\ hasDurationColumn \in BOOLEAN
    /\ partialIndex \in BOOLEAN
    /\ principal \in {NULL, TheUser}
    /\ calls = [k \in Slots |-> IdleCall]
    /\ now = StartTime
    /\ issued = 0
    /\ lastDone = NoCall
    /\ InitNoPlayer

\* the environment calls saveProgress, a moment after the previous call
EnvSave(k, contentId_, episodeId_, a) ==
    /\ issued < MaxIssued
    /\ issued' = issued + 1
    /\ now' = now + 1
    /\ saveProgress(k, contentId_, NULL, episodeId_, a[1], a[2], now', "env")
    /\ UNCHANGED <<schemaVars, ctlVars>>

\* the environment calls loadProgress
EnvLoad(k, episodeId_) ==
    /\ issued < MaxIssued
    /\ issued' = issued + 1
    /\ loadProgress(k, ValidContent, NULL, episodeId_, "env")
    /\ UNCHANGED <<schemaVars, now, ctlVars>>

\* the environment calls loadLatestSeriesProgress
EnvLoadLatest(k) ==
    /\ issued < MaxIssued
    /\ issued' = issued + 1
    /\ loadLatestSeriesProgress(k, ValidContent, "env")
    /\ UNCHANGED <<schemaVars, now, ctlVars>>

EngineStep ==
    \E k \in Slots :
        \/ DeleteStep(k)
        \/ \E withDuration \in BOOLEAN :
            \/ UpsertStep(k, withDuration)
            \/ UpdateStep(k, withDuration)
            \/ InsertStep(k, withDuration)
            \/ RetryStep(k, withDuration)

NextEngine ==
    \/ \E k \in Slots, u \in UnitIds, a \in SaveArgs : EnvSave(k, ValidContent, u, a)
    \/ \E k \in Slots, u \in UnitIds : EnvLoad(k, u)
    \/ \E k \in Slots, withDuration \in BOOLEAN : SelectStep(k, withDuration)
    \/ EngineStep

SpecEngine == InitEngine /\ [][NextEngine]_vars

\* The guards of the engine: saves with a content id that is no key, or with a
\* duration that is NaN, infinite, 0, -2 s or 0.5 s, next to saves that are accepted;
\* a principal that is signed in, absent, or whose lookup fails
GuardSaves ==
    {<<ValidContent, NULL, <<1, Sec(1200)>>>>,
     <<ValidContent, Episode1, <<1, Sec(1200)>>>>,
     <<ValidContent, NULL, <<Sec(1160), Sec(1200)>>>>,
     <<ValidContent, Episode1, <<Sec(1160), Sec(1200)>>>>,
     <<"m1", NULL, <<1, Sec(1200)>>>>,
     <<"m1", Episode1, <<Sec(1160), Sec(1200)>>>>,
     <<ValidContent, NULL, <<1, NaN>>>>,
     <<ValidContent, Episode1, <<1, Infinity>>>>,
     <<ValidContent, NULL, <<1, 0>>>>,
     <<ValidContent, Episode1, <<Sec(1160), 0 - Sec(2)>>>>,
     <<ValidContent, Episode1, <<1, 1>>>>}

InitGuard ==
    /\ store = <<ExternalRow(OtherUser, NULL, Sec(300), Sec(1200)),
                 ExternalRow(TheUser, Episode1, Sec(300), Sec(1200)),
                 [ExternalRow(TheUser, NULL, Sec(500), Sec(1200)) EXCEPT
                     !.movie_id = OtherContent, !.updated_at = StartTime + 10,
                     !.written_for = <<OtherContent, NULL>>]>>
    /\ hasDurationColumn \in BOOLEAN
    /\ partialIndex = TRUE
    /\ principal \in {NULL, TheUser, AuthError, AuthThrows}
    /\ calls = [k \in Slots |-> IdleCall]
    /\ now = StartTime
    /\ issued = 0
    /\ lastDone = NoCall
    /\ InitNoPlayer

NextGuard ==
    \/ \E k \in Slots, s \in GuardSaves : EnvSave(k, s[1], s[2], s[3])
    \/ \E k \in Slots, u \in {NULL, Episode1} : EnvLoad(k, u)
    \/ \E k \in Slots : EnvLoadLatest(k)
    \/ \E k \in Slots, withDuration \in BOOLEAN : SelectStep(k, withDuration)
    \/ \E k \in Slots, withDuration \in BOOLEAN : LatestStep(k, withDuration)
    \/ EngineStep

SpecGuard == InitGuard /\ [][NextGuard]_vars

-----------------------------------------------------------------------------
(* The player: a mounted component, its sink and the engine *)

Mounted ==
    /\ principal = TheUser
    /\ calls = [k \in Slots |-> IdleCall]
    /\ now = StartTime
    /\ issued = 0
    /\ lastDone = NoCall
    /\ src = "src-1"
    /\ contentId = ValidContent
    /\ vDuration = NaN
    /\ vCurrentTime = 0
    /\ duration = 0
    /\ restoredRef = FALSE
    /\ lastSavedAtRef = 0
    /\ loads = [k \in Slots |-> NoClosure]
    /\ feedback = NULL
    /\ seeks = 0
    /\ tickSavedAt = NoTime
    /\ reloaded = FALSE
    /\ handled = FALSE
    /\ playlistNextAutoplayRef = FALSE
    /\ selected = NULL
    /\ mounted = TRUE
    /\ LET bound == SetupBinding(ReleaseBinding([hlsRef |-> NULL, videoSrc |-> NULL,
                                                  bindings |-> 0]), src, hlsSupport)
       IN  hlsRef = bound.hlsRef /\ videoSrc = bound.videoSrc /\ bindings = bound.bindings

\* no playlist, no season, a browser with hls.js
Plain ==
    /\ NoThumbnails
    /\ errorLog = NoError
    /\ autoplay = FALSE
    /\ plays = FALSE
    /\ episodes = <<>>
    /\ playlistMode = TRUE
    /\ onSelectEpisode = FALSE
    /\ seasonId = NULL
    /\ hlsSupport = "hlsjs"

\* a table without duration_seconds holds none
WithoutDuration(s) == [i \in DOMAIN s |-> [s[i] EXCEPT !.duration_seconds = NaN]]

\* Restore: media of 100 s; the table holds a row of Episode1 another client of the
\* table wrote, at 98 s, 90 s or 50 s
RestoreStores ==
    {<<ExternalRow(TheUser, Episode1, Sec(98), Sec(100))>>,
     <<ExternalRow(TheUser, Episode1, Sec(90), Sec(100))>>,
     <<ExternalRow(TheUser, Episode1, Sec(50), Sec(100))>>}

InitRestore ==
    /\ Plain
    /\ Mounted
    /\ mediaDuration = Sec(100)
    /\ hasDurationColumn \in BOOLEAN
    /\ \E s \in RestoreStores :
        store = IF hasDurationColumn THEN s ELSE WithoutDuration(s)
    /\ partialIndex = TRUE
    /\ episodeId \in PlayerUnits
    /\ category \in {"movie", "series"}
    /\ contentCategoryFromDb = NULL

NextRestore ==
    \/ \E newSrc \in Sources, newEpisodeId \in PlayerUnits : PropsChange(newSrc, newEpisodeId)
    \/ CategoryLoaded
    \/ \E d \in {NaN, mediaDuration} : Meta(d)
    \/ \E k \in Slots, withDuration \in BOOLEAN : RestoreLoadStep(k, withDuration)

SpecRestore == InitRestore /\ [][NextRestore]_vars

\* the position timeupdate reports: 0 while no media is loaded, 700 s after
Position == IF vDuration = NaN THEN 0 ELSE Sec(700)

\* the engine's steps for saves that are not near the end
WriteStep ==
    \E k \in Slots, withDuration \in BOOLEAN :
        \/ UpsertStep(k, withDuration)
        \/ UpdateStep(k, withDuration)
        \/ InsertStep(k, withDuration)
        \/ RetryStep(k, withDuration)

\* Save: media of 1200 s or a live stream; a movie, an episode of a series, or a
\* series without an episode
InitSave ==
    /\ Plain
    /\ Mounted
    /\ mediaDuration \in {Sec(1200), Infinity}
    /\ hasDurationColumn = TRUE
    /\ store = <<>>
    /\ partialIndex = TRUE
    /\ \E id \in {<<NULL, "movie">>, <<Episode1, "series">>, <<NULL, "series">>} :
        episodeId = id[1] /\ category = id[2]
    /\ contentCategoryFromDb = category

NextSave ==
    \/ \E d \in {NaN, mediaDuration} : Meta(d)
    \/ \E k \in Slots, withDuration \in BOOLEAN : RestoreLoadStep(k, withDuration)
    \/ TimeUpdate(Position)
    \/ \E kind \in FlushEvents : Flush(kind)
    \/ Pass
    \/ WriteStep

SpecSave == InitSave /\ [][NextSave]_vars

\* Session: an episode of a series, media of 1200 s, played, left and reloaded
InitSession ==
    /\ Plain
    /\ Mounted
    /\ mediaDuration = Sec(1200)
    /\ hasDurationColumn = TRUE
    /\ store = <<>>
    /\ partialIndex = TRUE
    /\ episodeId \in {Episode1, "e1"}
    /\ category = "series"
    /\ contentCategoryFromDb = category

NextSession ==
    \/ \E d \in {NaN, mediaDuration} : Meta(d)
    \/ \E k \in Slots, withDuration \in BOOLEAN : RestoreLoadStep(k, withDuration)
    \/ TimeUpdate(Position)
    \/ Flush("hidden")
    \/ Pass
    \/ Reload
    \/ WriteStep

SpecSession == InitSession /\ [][NextSession]_vars

-----------------------------------------------------------------------------
(* Claims about the engine (SpecEngine) *)

\* the rows of the identity (user, c, u): u, or NULL for 'no unit'
KeyRows(s, userId, c, u) ==
    SelectSeq(s, LAMBDA r :
        /\ r.user_id = userId
        /\ r.movie_id = c
        /\ r.episode_id = (IF Truthy(u) THEN u ELSE NULL))

\* the call before the last completed one was a save for the same (c, u) that ran
\* with a principal and whose store statements did not fail
PrevSavedSameIdentity ==
    /\ lastDone.prev.op = "save"
    /\ lastDone.prev.c = lastDone.c
    /\ lastDone.prev.u = lastDone.u
    /\ lastDone.prev.out \notin {"invalid", "unauth", "failed"}

\* C1. Exact-match restore: a load for (c, u) never resolves to a record that a save
\* for another unit u' of c wrote (written_for is the identity the writing save was
\* called with).
C1_ExactMatchRestore ==
    (lastDone.op = "load" /\ lastDone.res # NoRow)
        => lastDone.res.written_for = <<lastDone.c, lastDone.u>>

\* C2. Movie single-row invariant: the table never holds more than one row with
\* episode_id NULL for (user, c), also when saves overlap.
C2_MovieSingleRow ==
    \A c \in ContentIds : Cardinality(MovieRows(store, TheUser, c)) <= 1

C4_IdempotentSave ==
    [][(/\ \E k \in Slots : calls[k].op = "save" /\ Busy(k) /\ calls'[k].pc = "idle"
        /\ lastDone'.op = "save"
        /\ lastDone'.solo
        /\ lastDone'.out = "written"
        /\ lastDone'.prev.out = "written"
        /\ lastDone'.prev = [op |-> "save", c |-> lastDone'.c, u |-> lastDone'.u,
                             pos |-> lastDone'.pos, dur |-> lastDone'.dur,
                             out |-> "written"])
        => LET rows == KeyRows(store', TheUser, lastDone'.c, lastDone'.u)
           IN  Len(rows) = 1 /\ rows[1].progress_seconds = toInt(lastDone'.pos)]_vars

-----------------------------------------------------------------------------
(* Claims about the player (SpecRestore, SpecSave, SpecSession) *)

\* the loadProgress of the restore effect in slot k resolves and its continuation runs
Resolves(k) ==
    /\ loads[k].live
    /\ Busy(k)
    /\ calls'[k].pc = "idle"
    /\ ~loads'[k].live
    /\ restoredRef'

\* the continuation sought the sink to pos and showed the restore notice
Sought(pos) ==
    /\ vCurrentTime' = pos
    /\ seeks' = seeks + 1
    /\ feedback' = "Continuar en"

NotSought == UNCHANGED <<vCurrentTime, seeks, feedback>>

\* a restore effect starts a loadProgress
NewLoad == \E k \in Slots : ~loads[k].live /\ loads'[k].live

\* exactly one saveProgress call starts, with these arguments
SaveIssued(by, pos, dur) ==
    \E k \in Slots :
        /\ ~Busy(k)
        /\ calls'[k].op = "save"
        /\ calls'[k].by = by
        /\ calls'[k].c = contentId
        /\ calls'[k].u = episodeId
        /\ calls'[k].pos = pos
        /\ calls'[k].dur = dur
        /\ \A j \in Slots \ {k} : calls'[j] = calls[j]

\* the identity is one the component saves for: not a series without an episode
Saveable == ~(isSeriesContext /\ ~Truthy(episodeId))

\* C5. End-to-end resume: with duration 1200 and position 700, hiding the tab issues
\* a save of position 700 whatever the throttle; and when, after a reload with the
\* same episode identity (c, u), the restore load resolves while the table holds the
\* save of 700 for (c, u), the sink is sought to 700.
C5_EndToEndResume ==
    [][/\ (Flush("hidden") /\ vDuration = Sec(1200) /\ vCurrentTime = Sec(700))
            => SaveIssued("flush", Sec(700), Sec(1200))
       /\ \A k \in Slots :
            (/\ Resolves(k)
             /\ ~loads[k].cancelled
             /\ reloaded
             /\ lastDone'.out = "loaded"
             /\ loads[k].duration = Sec(1200)
             /\ calls[k].c = contentId
             /\ calls[k].u = episodeId
             /\ Truthy(episodeId)
             /\ \E i \in DOMAIN store : store[i].written_for = <<contentId, episodeId>>
             /\ \A i \in DOMAIN store :
                    store[i].written_for = <<contentId, episodeId>>
                        => /\ store[i].user_id = TheUser
                           /\ store[i].progress_seconds = Sec(700)
                           /\ store[i].duration_seconds = Sec(1200))
                => Sought(Sec(700))]_vars

\* C6 as stated. Restore threshold: when the restore load of media of 100 s resolves
\* to a stored position of 98 s (dur - 2) the sink is not sought; when it resolves to
\* a stored position of 90 s (dur - 10) the sink is sought to 90 s.
C6_RestoreThreshold_AsStated ==
    [][\A k \in Slots :
        (/\ Resolves(k)
         /\ ~loads[k].cancelled
         /\ loads[k].duration = Sec(100)
         /\ lastDone'.res # NoRow)
            => /\ lastDone'.res.position_seconds = Sec(98) => NotSought
               /\ lastDone'.res.position_seconds = Sec(90) => Sought(Sec(90))]_vars

\* C6 amended. Restore threshold: a stored position of 98 s (dur - 2) of media of
\* 100 s is not restored; a stored position of 90 s (dur - 10) is restored exactly
\* when the record carries no duration: with its duration of 100 s the record is near
\* the end (100 - 90 <= NEAR_END_SECONDS) and is not restored either.
C6_RestoreThreshold ==
    [][\A k \in Slots :
        (/\ Resolves(k)
         /\ ~loads[k].cancelled
         /\ loads[k].duration = Sec(100)
         /\ lastDone'.res # NoRow)
            => /\ lastDone'.res.position_seconds = Sec(98) => NotSought
               /\ lastDone'.res.position_seconds = Sec(90) =>
                    IF lastDone'.res.duration_seconds = 0
                    THEN Sought(Sec(90))
                    ELSE lastDone'.res.duration_seconds = Sec(100) /\ NotSought]_vars

\* the record without duration at 90 s has been restored on media of 100 s
C6_Witness ==
    /\ restoredRef
    /\ seeks = 1
    /\ vCurrentTime = Sec(90)
    /\ duration = Sec(100)
    /\ lastDone.op = "load"
    /\ lastDone.res # NoRow
    /\ lastDone.res.position_seconds = Sec(90)

\* C7. Restore at most once per attach: between two source attaches the sink is
\* sought to a stored position at most once, and while the restored flag is true no
\* load is started unless the source is attached anew.
C7_RestoreAtMostOnce ==
    [][/\ seeks' <= 1
       /\ (restoredRef /\ src' = src) => ~NewLoad]_vars

\* after the restore has sought, the duration has changed again and no load runs
C7_Witness ==
    /\ seeks = 1
    /\ restoredRef
    /\ duration = 0
    /\ \A k \in Slots : ~loads[k].live

\* C8. Stale restore-load discard: when a restore load whose effect has been
\* cleaned up (its inputs changed) resolves, no session state changes: no seek, no
\* position, no notification, no change of the restored flag.
C8_StaleDiscard ==
    [][\A k \in Slots :
        (Resolves(k) /\ loads[k].cancelled)
            => UNCHANGED <<vCurrentTime, seeks, feedback, restoredRef>>]_vars

\* C9 as stated. Flush: a pause, beforeunload or hidden event causes exactly one save
\* call with the sink's position when the sink's duration is finite and positive,
\* whatever the time since the last save, and none otherwise.
C9_Flush_AsStated ==
    [][\A kind \in FlushEvents :
        Flush(kind) =>
            IF IsFinite(vDuration) /\ vDuration > 0
            THEN SaveIssued("flush", vCurrentTime, vDuration)
            ELSE UNCHANGED engineVars]_vars

\* C9 amended. Flush: a pause, beforeunload or hidden event causes exactly one save
\* call with the sink's position when the sink's duration is finite and positive and
\* the identity is not a series without an episode, whatever the time since the last
\* save, and none otherwise.
C9_Flush ==
    [][\A kind \in FlushEvents :
        Flush(kind) =>
            IF /\ IsFinite(vDuration) /\ vDuration > 0
               /\ ~(isSeriesContext /\ episodeId = NULL)
            THEN SaveIssued("flush", vCurrentTime, vDuration)
            ELSE UNCHANGED engineVars]_vars

\* a flush save and the timeupdate save of the same instant are both in flight
C9_Witness ==
    /\ calls[1].by = "timeupdate"
    /\ calls[1].pc \in {"upsert", "update"}
    /\ calls[2].by = "flush"
    /\ calls[2].pc \in {"upsert", "update"}
    /\ calls[1].at = calls[2].at
    /\ lastSavedAtRef = now

\* C10 as stated. Throttled save: with a saveable identity a timeupdate issues a save
\* if and only if the sink's duration is finite and positive and a throttle interval
\* or more has passed since the last timeupdate save was issued, or none was.
C10_Throttle_AsStated ==
    [][(TimeUpdate(Position) /\ Saveable) =>
        (SaveIssued("timeupdate", Position, vDuration)
            <=> /\ IsFinite(vDuration) /\ vDuration > 0
                /\ \/ tickSavedAt = NoTime
                   \/ now - tickSavedAt >= PROGRESS_THROTTLE_MS)]_vars


-----------------------------------------------------------------------------
(* The playlist: a mounted player with a list of episodes, played to its end *)

S1E1 == [id |-> Episode1, seasonNumber |-> 1, episodeNumber |-> 1]
S1E2 == [id |-> Episode2, seasonNumber |-> 1, episodeNumber |-> 2]
S2E1 == [id |-> Episode3, seasonNumber |-> 2, episodeNumber |-> 1]

\* three episodes whose numbers are partly missing: two of them compare equal up
\* to their ids
Unnumbered ==
    {[id |-> Episode3, seasonNumber |-> NoNumber, episodeNumber |-> NoNumber],
     [id |-> Episode1, seasonNumber |-> 1, episodeNumber |-> NoNumber],
     [id |-> Episode2, seasonNumber |-> NoNumber, episodeNumber |-> 1]}

\* the lists that hold every element of a set once
ListsOf(set) ==
    {list \in [1..Cardinality(set) -> set] : {list[i] : i \in DOMAIN list} = set}

Playlists ==
    {<<>>} \cup ListsOf({S1E1, S1E2, S2E1}) \cup ListsOf(Unnumbered)

\* the unit played: none, one of the list, or one the list does not hold
PlaylistUnits == {NULL, Episode1, Episode2, Episode3, "episode-0009"}

InitPlaylist ==
    /\ NoThumbnails
    /\ errorLog = NoError
    /\ autoplay \in BOOLEAN
    /\ plays = FALSE
    /\ episodes \in Playlists
    /\ playlistMode \in BOOLEAN
    /\ onSelectEpisode \in BOOLEAN
    /\ seasonId = NULL
    /\ hlsSupport = "hlsjs"
    /\ Mounted
    /\ mediaDuration = Sec(1200)
    /\ hasDurationColumn = TRUE
    /\ store = <<>>
    /\ partialIndex = TRUE
    /\ episodeId \in PlaylistUnits
    /\ category \in {"movie", "series"}
    /\ contentCategoryFromDb = category

\* the parent answers onSelectEpisode: it passes the episode asked for and its source
SelectEpisode ==
    /\ selected # NULL
    /\ selected # episodeId
    /\ \E newSrc \in Sources \ {src} : PropsChange(newSrc, selected)

NextPlaylist ==
    \/ \E d \in {NaN, mediaDuration} : Meta(d)
    \/ \E k \in Slots, withDuration \in BOOLEAN : RestoreLoadStep(k, withDuration)
    \/ Ended
    \/ SelectEpisode

SpecPlaylist == InitPlaylist /\ [][NextPlaylist]_vars

-----------------------------------------------------------------------------
(* Claims about the playlist (SpecPlaylist) *)

\* the content is shown as a series: its category says so, or no category is
\* known and an episode is played
ShownAsSeries ==
    \/ contentCategoryFromDb = "series"
    \/ contentCategoryFromDb # "movie" /\ episodeId # NULL /\ episodeId # ""

\* ended asked the caller for the unit next and armed the forced autoplay
Advanced(next) ==
    /\ playlistNextAutoplayRef'
    /\ selected' = next.id
    /\ feedback' # "Finalizado"

\* ended notified the completion and asked for nothing
Completed ==
    /\ feedback' = "Finalizado"
    /\ selected' = selected
    /\ playlistNextAutoplayRef' = playlistNextAutoplayRef

KeyLeq(a, b) ==
    LET sa == IF a.seasonNumber = NoNumber THEN 1 ELSE a.seasonNumber
        sb == IF b.seasonNumber = NoNumber THEN 1 ELSE b.seasonNumber
        ea == IF a.episodeNumber = NoNumber THEN 0 ELSE a.episodeNumber
        eb == IF b.episodeNumber = NoNumber THEN 0 ELSE b.episodeNumber
    IN  \/ sa < sb
        \/ sa = sb /\ ea < eb
        \/ sa = sb /\ ea = eb /\ localeCompare(a.id, b.id) <= 0

Elements(list) == {list[i] : i \in DOMAIN list}

\* C12.  The order of the playlist holds the units given, sorted by season number
\* (1 when missing), then episode number (0 when missing), then id; it is the same
\* for every permutation of the units; and (S1,E2), (S1,E1), (S2,E1) are ordered
\* (S1,E1), (S1,E2), (S2,E1).
C12_PlaylistOrdering ==
    LET ordered == orderedEpisodes(episodes)
    IN  /\ Len(ordered) = Len(episodes)
        /\ Elements(ordered) = Elements(episodes)
        /\ \A i, j \in DOMAIN ordered : i < j => KeyLeq(ordered[i], ordered[j])
        /\ \A list \in ListsOf(Elements(episodes)) : orderedEpisodes(list) = ordered
        /\ Elements(episodes) = {S1E1, S1E2, S2E1} => ordered = <<S1E1, S1E2, S2E1>>

C12_Witness ==
    /\ episodes = <<S1E2, S1E1, S2E1>>
    /\ orderedEpisodes(episodes) = <<S1E1, S1E2, S2E1>>

\* C13.  The next unit of the unit played is the entry that follows it in the
\* order of the playlist; there is none when no unit is played, when the unit is
\* not in the playlist, or when it is the last entry: with (S1,E1), (S1,E2),
\* (S2,E1) the next of (S1,E1) is (S1,E2) and (S2,E1) has none.
C13_NextUnit ==
    LET ordered == orderedEpisodes(episodes)
        next == nextEpisodeInPlaylist(episodes, episodeId)
        at == {i \in DOMAIN ordered : ordered[i].id = episodeId}
    IN  /\ (episodeId = NULL \/ at = {} \/ at = {Len(ordered)}) => next = NoEpisode
        /\ \A i \in at : i < Len(ordered) => next = ordered[i + 1]
        /\ Elements(episodes) = {S1E1, S1E2, S2E1} =>
            /\ episodeId = Episode1 => next = S1E2
            /\ episodeId = Episode2 => next = S2E1
            /\ episodeId = Episode3 => next = NoEpisode

C13_Witness ==
    /\ episodes = <<S2E1, S1E2, S1E1>>
    /\ episodeId = Episode1
    /\ nextEpisodeInPlaylist(episodes, episodeId) = S1E2
    /\ selected = Episode2

-----------------------------------------------------------------------------
(* The life of a player: sources come and go, the component is unmounted *)

\* the sources the parent passes: two media, or none yet
LifeSources == Sources \cup {""}

\* the record of the episode: 300 s of 1200 s, 0.4 s of 1200 s (stored as 0), 1170 s
\* of 1200 s (near the end), or 1198 s of an unknown duration
LifeStores ==
    {<<ExternalRow(TheUser, Episode1, Sec(300), Sec(1200))>>,
     <<ExternalRow(TheUser, Episode1, 0, Sec(1200))>>,
     <<ExternalRow(TheUser, Episode1, Sec(1170), Sec(1200))>>,
     <<ExternalRow(TheUser, Episode1, Sec(1198), 0)>>}

InitLife ==
    /\ NoThumbnails
    /\ errorLog = NoError
    /\ autoplay = FALSE
    /\ plays = FALSE
    /\ episodes = <<>>
    /\ playlistMode = TRUE
    /\ onSelectEpisode = FALSE
    /\ seasonId = NULL
    /\ hlsSupport \in {"hlsjs", "native", "none"}
    /\ Mounted
    /\ mediaDuration = Sec(1200)
    /\ hasDurationColumn = TRUE
    /\ store \in LifeStores
    /\ partialIndex = TRUE
    /\ episodeId \in {NULL, Episode1}
    /\ category \in {"movie", "series"}
    /\ contentCategoryFromDb = category

NextLife ==
    \/ \E newSrc \in LifeSources, newEpisodeId \in {NULL, Episode1} :
            PropsChange(newSrc, newEpisodeId)
    \/ \E d \in {NaN, mediaDuration} : Meta(d)
    \/ \E k \in Slots, withDuration \in BOOLEAN : RestoreLoadStep(k, withDuration)
    \/ Unmount

SpecLife == InitLife /\ [][NextLife]_vars

-----------------------------------------------------------------------------
(* Claims about the life of a player (SpecLife) *)

\* no Hls instance is live and the video has no source
Released == bindings = 0 /\ hlsRef = NULL /\ videoSrc = NULL

\* the bindings that are live: the Hls instances, or the source the browser plays
LiveBindings == bindings + (IF hlsRef = NULL /\ videoSrc # NULL THEN 1 ELSE 0)

\* C14.  On unmount the binding of the playback engine is released and, when the
\* sink has a finite, positive duration (and the identity is one the player saves
\* for), one flush save of the sink's position is issued.
C14_UnmountFlush ==
    [][Unmount =>
        /\ Released'
        /\ (ValidDuration(vDuration) /\ Saveable)
                => SaveIssued("flush", vCurrentTime, vDuration)]_vars

-----------------------------------------------------------------------------
(* Claims about the guards of the engine (SpecGuard, SpecEngine) *)

\* no authenticated principal is available: there is none, or the lookup reports an
\* error or throws
NoPrincipal == principal \in {NULL, AuthError, AuthThrows}

\* the program points of a call that has sent no statement to the store yet
BeforeStore == {"idle", "select", "latest"}

\* C16.  While no authenticated principal is available the store is never changed,
\* no call gets past the lookup of the principal to a statement on the store, and
\* every call that returns resolves to no record without having queried, written
\* or deleted anything.
C16_NoPrincipalNoOp ==
    [][NoPrincipal =>
        /\ store' = store
        /\ \A k \in Slots : calls'[k].pc \in BeforeStore
        /\ lastDone' # lastDone =>
            /\ lastDone'.out \in {"invalid", "unauth"}
            /\ lastDone'.res = NoRow]_vars

\* the lookup threw; a load of the latest progress and then a save returned
C16_Witness ==
    /\ principal = AuthThrows
    /\ lastDone.op = "save"
    /\ lastDone.out = "unauth"
    /\ lastDone.prev.op = "latest"
    /\ lastDone.prev.out = "unauth"

\* the save is one the engine has to reject: its duration is not finite or not
\* positive, or its content id is no key
Rejectable(s) == ~IsFinite(s[3][2]) \/ s[3][2] <= 0 \/ ~isUuidLike(s[1])

\* C17.  A save whose duration is not finite or is <= 0, or whose content id is not
\* a valid key, returns at once: it leaves the store unchanged and no activation
\* that could send a write or a delete.
C17_SaveRejection ==
    [][\A k \in Slots, s \in GuardSaves :
        (EnvSave(k, s[1], s[2], s[3]) /\ Rejectable(s)) =>
            /\ store' = store
            /\ calls' = calls
            /\ lastDone'.op = "save"
            /\ lastDone'.out \in {"invalid", "unauth", "rejected"}]_vars

\* a save with an infinite duration was rejected after one with an invalid content id
C17_Witness ==
    /\ principal = TheUser
    /\ lastDone.op = "save"
    /\ lastDone.dur = Infinity
    /\ lastDone.out = "rejected"
    /\ lastDone.prev.c = "m1"
    /\ lastDone.prev.out = "invalid"
    /\ Len(store) = 3

ExactRecord(r, rec) ==
    /\ r.user_id = rec.uid
    /\ r.movie_id = rec.c
    /\ r.episode_id = (IF rec.u = NULL THEN NULL ELSE rec.u)

Rows(s) == {s[i] : i \in DOMAIN s}

\* C19.  A near-end save for (c, u) that gets to the store sends a delete and
\* nothing else; when it returns, no row was added or changed and every row that
\* is not the record of exactly (user, c, u) is still there: the rows of other
\* units of c, of 'no unit' of c, of other contents and of other users.
C19_ExactDeleteOnly ==
    [][\A k \in Slots :
        /\ (/\ ~Busy(k)
            /\ calls'[k].op = "save"
            /\ calls'[k].pc # "idle"
            /\ isNearEnd(toInt(calls'[k].pos), toInt(calls'[k].dur)))
                => calls'[k].pc = "delete"
        /\ (calls[k].pc = "delete" /\ calls'[k].pc # "delete") =>
            /\ calls'[k].pc = "idle"
            /\ Rows(store') \subseteq Rows(store)
            /\ SelectSeq(store', LAMBDA r : ~ExactRecord(r, calls[k]))
                    = SelectSeq(store, LAMBDA r : ~ExactRecord(r, calls[k]))]_vars

\* the near-end save of Episode1 deleted its row and left that of the other user
C19_Witness ==
    /\ lastDone.op = "save"
    /\ lastDone.out = "deleted"
    /\ lastDone.u = Episode1
    /\ store = <<ExternalRow(OtherUser, NULL, Sec(300), Sec(1200))>>

-----------------------------------------------------------------------------
(* The season: players that differ in the seasonId they are given *)

Seasons == {NULL, "season-0001", "season-0002"}

\* a movie or an episode of a series whose row is in the table, media of 1200 s
InitSeason ==
    /\ NoThumbnails
    /\ errorLog = NoError
    /\ autoplay = FALSE
    /\ plays = FALSE
    /\ episodes = <<>>
    /\ playlistMode = TRUE
    /\ onSelectEpisode = FALSE
    /\ seasonId \in Seasons
    /\ hlsSupport = "hlsjs"
    /\ Mounted
    /\ mediaDuration = Sec(1200)
    /\ hasDurationColumn = TRUE
    /\ store = <<ExternalRow(TheUser, Episode1, Sec(300), Sec(1200))>>
    /\ partialIndex = TRUE
    /\ episodeId \in {NULL, Episode1}
    /\ category \in {"movie", "series"}
    /\ contentCategoryFromDb = category

NextSeason ==
    \/ \E d \in {NaN, mediaDuration} : Meta(d)
    \/ \E k \in Slots, withDuration \in BOOLEAN : RestoreLoadStep(k, withDuration)
    \/ TimeUpdate(Position)
    \/ Flush("pause")
    \/ WriteStep

SpecSeason == InitSeason /\ [][NextSeason]_vars

\* the step starts a save of the component in slot k
SaveStarts(k, by) ==
    /\ ~Busy(k)
    /\ calls'[k].op = "save"
    /\ calls'[k].by = by
    /\ calls'[k].pc # "idle"

-----------------------------------------------------------------------------
(* Thumbnails: a movie of 1200 s whose cue sheet loads while the pointer moves *)

VttUrls == {"https://cdn/a/thumbs.vtt", "https://cdn/b/thumbs.vtt"}

\* WEBVTT, then 00:00:00.000 --> 00:00:05.000 with https://img/1.jpg and
\* 00:05.000 --> 00:12.000 with https://img/2.jpg
ExampleSheet ==
    Text(<<HeaderLine, BlankLine,
           TimingLine(<<0, 0, 0>>, <<0, 0, Ds(5)>>), TextLine("https://img/1.jpg", <<>>),
           BlankLine,
           TimingLine(<<0, Ds(5)>>, <<0, Ds(12)>>), TextLine("https://img/2.jpg", <<>>)>>)

\* cues with identifiers over one sprite, the second inside the first, none before 2 s
SpriteSheet ==
    Text(<<HeaderLine, BlankLine,
           TextLine("1", <<>>), TimingLine(<<0, Ds(2)>>, <<0, Ds(10)>>),
           TextLine("sprite.jpg", <<0, 0, 160, 90>>), BlankLine,
           TextLine("2", <<>>), TimingLine(<<0, Ds(5)>>, <<0, Ds(8)>>),
           TextLine("sprite.jpg", <<160, 0, 160, 90>>)>>)

\* the example without its header
HeaderlessSheet ==
    Text(<<TimingLine(<<0, 0, 0>>, <<0, 0, Ds(5)>>), TextLine("https://img/1.jpg", <<>>)>>)

\* a header and a timing line whose timestamps are no numbers: "soon --> la:ter"
JunkTimesSheet ==
    Text(<<HeaderLine, TimingLine(<<NaN>>, <<NaN, NaN>>),
           TextLine("https://img/1.jpg", <<>>)>>)

\* a header and a timing line without a payload
NoPayloadSheet == Text(<<HeaderLine, BlankLine, TimingLine(<<0, 0>>, <<0, Ds(5)>>), BlankLine>>)

\* a page of text that is no cue sheet
PageSheet == Text(<<TextLine("<html>", <<>>), TextLine("not found", <<>>)>>)

Sheets ==
    {Unreachable, NotOk, ExampleSheet, SpriteSheet, HeaderlessSheet, JunkTimesSheet,
     NoPayloadSheet, PageSheet}

\* times of the bar the pointer is moved to: 0, 4.9 s, 5 s, 7 s, 12 s, 100 s
HoverTimes == {0, 49, Ds(5), Ds(7), Ds(12), Ds(100)}

InitCues ==
    /\ errorLog = NoError
    /\ episodes = <<>>
    /\ playlistMode = TRUE
    /\ onSelectEpisode = FALSE
    /\ seasonId = NULL
    /\ hlsSupport = "hlsjs"
    /\ autoplay = FALSE
    /\ plays = FALSE
    /\ Mounted
    /\ mediaDuration = Sec(1200)
    /\ hasDurationColumn = TRUE
    /\ store = <<ExternalRow(TheUser, NULL, Sec(300), Sec(1200))>>
    /\ partialIndex = TRUE
    /\ episodeId = NULL
    /\ category = "movie"
    /\ contentCategoryFromDb = category
    /\ thumbnailsVtt \in {NULL, "https://cdn/a/thumbs.vtt"}
    /\ vttSheet \in Sheets
    /\ thumbnailCues = <<>>
    /\ vttLoads = [k \in Slots |->
                     IF k = 1 /\ Truthy(thumbnailsVtt)
                     THEN [live |-> TRUE, cancelled |-> FALSE, url |-> thumbnailsVtt]
                     ELSE NoVttLoad]
    /\ hoverTime = NoTime

NextCues ==
    \/ \E d \in {NaN, mediaDuration} : Meta(d)
    \/ \E k \in Slots : RestoreLoadStep(k, TRUE)
    \/ \E url \in VttUrls \cup {NULL, ""} : VttChange(url)
    \/ \E k \in Slots : VttResolve(k)
    \/ \E t \in HoverTimes : ProgressMouseMove(t)
    \/ ProgressMouseLeave
    \/ Unmount

SpecCues == InitCues /\ [][NextCues]_vars

\* the positions of the cues whose interval holds t
Hits(cues, t) == {i \in 1..Len(cues) : NumGE(t, cues[i].start) /\ NumLT(t, cues[i].end)}

\* the cues of the example: (0, 5, url1), (5, 12, url2)
ExampleCues ==
    <<[start |-> 0, end |-> Ds(5), url |-> "https://img/1.jpg", xywh |-> <<>>],
      [start |-> Ds(5), end |-> Ds(12), url |-> "https://img/2.jpg", xywh |-> <<>>]>>

\* C21. Cue lookup: for the cue index of the session and every time t, the lookup
\* returns the first cue in sequence order with start <= t < end; when no interval
\* holds t (t exceeds them all) it returns the last cue; on an empty index it returns
\* none.  For the cues (0, 5, url1), (5, 12, url2): lookup(4.9) = url1,
\* lookup(5.0) = url2, lookup(100) = url2.
C21_CueLookup ==
    /\ \A t \in HoverTimes :
          LET found == findThumbnailCue(thumbnailCues, t)
              hits == Hits(thumbnailCues, t)
          IN  /\ thumbnailCues = <<>> => found = NoCue
              /\ hits # {} =>
                    \E i \in hits : /\ \A j \in hits : i <= j
                                    /\ found = thumbnailCues[i]
              /\ (thumbnailCues # <<>> /\ hits = {}) =>
                    found = thumbnailCues[Len(thumbnailCues)]
    /\ thumbnailCues = ExampleCues =>
          /\ findThumbnailCue(thumbnailCues, 49).url = "https://img/1.jpg"
          /\ findThumbnailCue(thumbnailCues, Ds(5)).url = "https://img/2.jpg"
          /\ findThumbnailCue(thumbnailCues, Ds(100)).url = "https://img/2.jpg"

\* the cues of the example are loaded and the pointer at 5.0 s shows the second
C21_Witness ==
    /\ thumbnailCues = ExampleCues
    /\ hoverTime = Ds(5)
    /\ hoverCue = ExampleCues[2]

\* the fetch of the cue sheet gives no text
CannotBeFetched(sheet) == sheet.kind # "text"

\* a timestamp token all of whose parts are numbers
NumericStamp(t) == t # <<>> /\ \A i \in 1..Len(t) : t[i] # NaN

\* the text of a cue sheet is malformed: its first line is not the header, a timing
\* line has a timestamp that is no number, or a timing line has no payload
Malformed(sheet) ==
    /\ sheet.kind = "text"
    /\ \/ sheet.lines = <<>>
       \/ sheet.lines[1].kind # "header"
       \/ \E i \in 1..Len(sheet.lines) :
             /\ sheet.lines[i].kind = "timing"
             /\ \/ ~NumericStamp(sheet.lines[i].startRaw)
                \/ ~NumericStamp(sheet.lines[i].endRaw)
                \/ SkipBlank(sheet.lines, i + 1) > Len(sheet.lines)

\* the load of the cue sheet settles in a closure that is not cancelled
CueSheetSettles(k) == vttLoads[k].live /\ ~vttLoads[k].cancelled /\ ~vttLoads'[k].live

\* C22. Malformed cue sheet: when the load of a cue sheet that is malformed or cannot
\* be fetched settles, the cue index of the session becomes the empty sequence and
\* the session state (engine binding, sink, restored flag, identity, notification) is
\* unchanged.
C22_MalformedCueSheet ==
    [][\A k \in Slots :
        (CueSheetSettles(k) /\ (CannotBeFetched(vttSheet) \/ Malformed(vttSheet)))
            => /\ thumbnailCues' = <<>>
               /\ UNCHANGED <<bindVars, vDuration, vCurrentTime, restoredRef, src,
                              contentId, episodeId, feedback, mounted>>]_vars

-----------------------------------------------------------------------------
(* Claims about the schema fallback and about writes that overtake each other *)

\* the write of slot k has failed because duration_seconds is absent and is on
\* its path without the column
MissedColumn(k) == calls[k].pc \in {"upsertNoDur", "updateNoDur", "insertNoDur", "retryNoDur"}

\* this step is an attempt of the write of slot j that names the column and fails
\* because the column is absent
MissesColumn(j) ==
    /\ calls[j].pc \in {"upsert", "update", "insert", "retry"}
    /\ calls'[j].pc \in {"upsertNoDur", "updateNoDur", "insertNoDur", "retryNoDur"}

\* this step starts a write in slot j whose first attempt names the column
StartsWithColumn(j) ==
    /\ ~Busy(j)
    /\ calls'[j].op = "save"
    /\ calls'[j].pc \in {"upsert", "update"}

\* C23. Schema capability is remembered: once a write has failed because the
\* duration column is absent, every write started later omits the column from its
\* first attempt, and no other write attempt fails for that reason.
C23_SchemaRemembered ==
    [][\A k \in Slots :
        MissedColumn(k) => \A j \in Slots : ~StartsWithColumn(j) /\ ~MissesColumn(j)]_vars

\* Two saves of one identity, 100 s and then 200 s of 1200 s, whose writes land in
\* either order, and a load once both have landed
FirstPosition == Sec(100)
SecondPosition == Sec(200)

InitReorder ==
    /\ store = <<>>
    /\ hasDurationColumn \in BOOLEAN
    /\ partialIndex \in BOOLEAN
    /\ principal = TheUser
    /\ calls = [k \in Slots |-> IdleCall]
    /\ now = StartTime
    /\ issued = 0
    /\ lastDone = NoCall
    /\ InitNoPlayer

\* has a save for the unit u been issued
SavedFor(u) ==
    \/ \E j \in Slots : calls[j].op = "save" /\ calls[j].u = u
    \/ lastDone.op = "save" /\ lastDone.u = u

\* the environment saves the first position and then, for the same identity, the
\* second
ReorderSave(k, u) ==
    /\ issued <= 1
    /\ issued = 1 => SavedFor(u)
    /\ issued' = issued + 1
    /\ now' = now + 1
    /\ saveProgress(k, ValidContent, NULL, u,
                    IF issued = 0 THEN FirstPosition ELSE SecondPosition, Sec(1200), now',
                    "env")
    /\ UNCHANGED <<schemaVars, ctlVars>>

\* both saves have returned after their write
BothLanded ==
    /\ \A j \in Slots : ~Busy(j)
    /\ lastDone.op = "save" /\ lastDone.out = "written"
    /\ lastDone.prev.op = "save" /\ lastDone.prev.out = "written"

\* the environment loads the identity of the two saves once both have landed
ReorderLoad(k) ==
    /\ issued = 2
    /\ BothLanded
    /\ issued' = 3
    /\ loadProgress(k, ValidContent, NULL, lastDone.u, "env")
    /\ UNCHANGED <<schemaVars, now, ctlVars>>

NextReorder ==
    \/ \E k \in Slots, u \in {NULL, Episode1} : ReorderSave(k, u)
    \/ \E k \in Slots : ReorderLoad(k)
    \/ \E k \in Slots, withDuration \in BOOLEAN :
          \/ SelectStep(k, withDuration)
          \/ UpsertStep(k, withDuration)
          \/ UpdateStep(k, withDuration)
          \/ InsertStep(k, withDuration)
          \/ RetryStep(k, withDuration)

SpecReorder == InitReorder /\ [][NextReorder]_vars

\* C24. Reordered writes: when the two saves of one identity were issued in order
\* and the write of the first landed after the write of the second, a load
\* performed after both have landed returns the record of the save issued later.
C24_ReorderedWrites ==
    (/\ lastDone.op = "load"
     /\ lastDone.out = "loaded"
     /\ lastDone.prev.op = "save"
     /\ lastDone.prev.pos = FirstPosition)
        => /\ lastDone.res # NoRow
           /\ lastDone.res.position_seconds = toInt(SecondPosition)

-----------------------------------------------------------------------------
(* Claims about the latest record of a content *)

\* the rows of the user of the call rec for its content, any unit
RecordsOf(rec) ==
    {i \in 1..Len(store) : store[i].user_id = rec.uid /\ store[i].movie_id = rec.c}

\* loadLatestSeriesProgress of slot k resolves after its query
LatestResolves(k) ==
    /\ calls[k].op = "latest"
    /\ Busy(k)
    /\ calls'[k].pc = "idle"
    /\ lastDone'.out = "loaded"

\* C25. Content-level latest: loadLatestSeriesProgress(c) resolves to the record of
\* the user with the greatest updated_at among all the records of content c, whatever
\* their unit, or to none when the user has no record of c; it never resolves to a
\* record of another content.
C25_ContentLatest ==
    [][\A k \in Slots :
        LatestResolves(k) =>
            LET mine == RecordsOf(calls[k])
                res == lastDone'.res
            IN  IF mine = {} THEN res = NoRow
                ELSE /\ res # NoRow
                     /\ res.movie_id = calls[k].c
                     /\ \E i \in mine :
                           /\ \A j \in mine : store[j].updated_at <= store[i].updated_at
                           /\ res.episode_id = store[i].episode_id
                           /\ res.position_seconds = toInt(store[i].progress_seconds)]_vars

\* the latest load resolved to the record without unit that a save had just
\* written, although the older record of an episode and a newer record of another
\* content exist
C25_Witness ==
    /\ lastDone.op = "latest"
    /\ lastDone.out = "loaded"
    /\ lastDone.res # NoRow
    /\ lastDone.res.episode_id = NULL
    /\ lastDone.res.movie_id = ValidContent
    /\ \E i, j \in 1..Len(store) :
          /\ store[i].user_id = TheUser /\ store[i].movie_id = ValidContent
          /\ store[i].episode_id = Episode1
          /\ store[j].user_id = TheUser /\ store[j].movie_id = OtherContent
          /\ store[j].updated_at > StartTime + 1

-----------------------------------------------------------------------------
(* Claims about the restore rule *)

\* the record is near the end: stored duration > 0 and stored duration - position
\* <= NEAR_END_SECONDS
NearEndRecord(row) ==
    /\ row.duration_seconds > 0
    /\ row.duration_seconds - row.position_seconds <= Sec(NEAR_END_SECONDS)

C27_NoSaveBeforeRestore ==
    [][\A k \in Slots :
        (SaveStarts(k, "timeupdate") \/ SaveStarts(k, "flush")) => restoredRef]_vars

-----------------------------------------------------------------------------
(* Restore under duration changes: one source whose duration the sink reports as
   1200 s and later corrects upwards, and a store with a record at 300 s *)

Durations == {Sec(1200), Sec(1210), Sec(1220)}

InitEventually ==
    /\ Plain
    /\ NoThumbnails
    /\ errorLog = NoError
    /\ plays = FALSE
    /\ Mounted
    /\ mediaDuration = Sec(1200)
    /\ hasDurationColumn \in BOOLEAN
    /\ \E s \in {<<ExternalRow(TheUser, NULL, Sec(300), Sec(1200)),
                   ExternalRow(TheUser, Episode1, Sec(300), Sec(1200))>>} :
          store = IF hasDurationColumn THEN s ELSE WithoutDuration(s)
    /\ partialIndex = TRUE
    /\ \E id \in {<<NULL, "movie">>, <<Episode1, "series">>, <<Episode1, "movie">>} :
          episodeId = id[1] /\ category = id[2]
    /\ contentCategoryFromDb = category

\* durationchange: the sink corrects its duration upwards
DurationGrows(d) ==
    /\ vDuration = NaN \/ vDuration < d
    /\ Meta(d)

NextEventually ==
    \/ \E d \in Durations : DurationGrows(d)
    \/ \E k \in Slots, withDuration \in BOOLEAN : RestoreLoadStep(k, withDuration)

\* every loadProgress in flight settles
SpecEventually ==
    /\ InitEventually
    /\ [][NextEventually]_vars
    /\ \A k \in Slots : WF_vars(\E withDuration \in BOOLEAN : RestoreLoadStep(k, withDuration))

\* the sink has reported a finite positive duration
Ready == ValidDuration(vDuration)

\* a loadProgress of the session has failed
LoadFailed == lastDone.op = "load" /\ lastDone.out = "failed"

\* C28. Restore eventually happens: once the attach has reached Ready with a finite
\* positive duration, with a restorable record of the current identity in the store
\* and no further source change, the sink is eventually sought to the stored
\* position, provided no load fails, whatever the interleaving of duration changes
\* and of completions of superseded loads.
C28_RestoreEventually ==
    []~LoadFailed => (Ready ~> (seeks = 1 /\ vCurrentTime = Sec(300)))

-----------------------------------------------------------------------------
(* Claims about the forced autoplay (SpecPlaylist) *)

\* the sink reports loadedmetadata or durationchange
MetadataReady == \E d \in {NaN, mediaDuration} : Meta(d)

\* C29. Forced-autoplay flag life cycle: the flag becomes true only when ended finds
\* a next unit; a metadata-ready event requests playback exactly when the flag or
\* the autoplay of the props is set, and the flag is false after it, so that the
\* flag forces no playback at a later metadata-ready event.
C29_ForcedAutoplay ==
    [][/\ (~playlistNextAutoplayRef /\ playlistNextAutoplayRef')
            => Ended /\ nextEpisodeInPlaylist(episodes, episodeId) # NoEpisode
       /\ MetadataReady
            => /\ (plays' # plays) <=> (autoplay \/ playlistNextAutoplayRef)
               /\ ~playlistNextAutoplayRef']_vars

\* without autoplay in the props, the unit asked for by ended has been selected and
\* its metadata has started the playback and cleared the flag
C29_Witness ==
    /\ ~autoplay
    /\ plays
    /\ ~playlistNextAutoplayRef
    /\ selected = episodeId
    /\ selected = Episode2
    /\ ValidDuration(vDuration)

-----------------------------------------------------------------------------
(* Claims about the insert of a movie row that loses a race (SpecEngine) *)

\* the insert of the save of slot k is answered and the save goes on
InsertRefused(k) ==
    /\ calls[k].pc \in {"insert", "insertNoDur"}
    /\ calls'[k].pc \notin {calls[k].pc, "idle"}

\* the update after the unique violation of the save of slot k is answered
RetryAnswered(k) ==
    /\ calls[k].pc \in {"retry", "retryNoDur"}
    /\ calls'[k].pc # calls[k].pc

\* C30. Uniqueness-race recovery: when the insert of a movie save fails with a
\* unique violation, the save falls back to one update of the row that exists; after
\* that update the save has returned: either the update has failed and the save has
\* given up, or, the row still being there, the one row of the identity holds the
\* position of this save.  No second insert is attempted.
C30_UniquenessRecovery ==
    [][\A k \in Slots :
        /\ InsertRefused(k)
              => /\ calls'[k].pc \in {"retry", "retryNoDur"}
                 /\ MovieRows(store, calls[k].uid, calls[k].c) # {}
                 /\ store' = store
        /\ RetryAnswered(k)
              => /\ calls'[k].pc = "idle"
                 /\ Len(store') = Len(store)
                 /\ \/ lastDone'.out = "failed" /\ store' = store
                    \/ MovieRows(store, calls[k].uid, calls[k].c) = {}
                    \/ /\ lastDone'.out = "written"
                       /\ Cardinality(MovieRows(store', calls[k].uid, calls[k].c)) = 1
                       /\ \A i \in MovieRows(store', calls[k].uid, calls[k].c) :
                             store'[i].progress_seconds = SavedPos(calls[k])]_vars

\* the insert of a save has lost against the insert of a concurrent save, which has
\* returned, and the save is about to update the one row
C30_Witness ==
    /\ partialIndex
    /\ lastDone.op = "save"
    /\ lastDone.out = "written"
    /\ ~lastDone.solo
    /\ \E k \in Slots :
          /\ calls[k].pc \in {"retry", "retryNoDur"}
          /\ Cardinality(MovieRows(store, calls[k].uid, calls[k].c)) = 1

-----------------------------------------------------------------------------
(* Claims about the fallback of one save (SpecEngine) *)

\* the write of slot k without the column has landed
WrittenWithoutColumn(k) ==
    /\ calls[k].pc \in {"upsertNoDur", "updateNoDur", "insertNoDur"}
    /\ calls'[k].pc = "idle"
    /\ lastDone'.out = "written"

\* C31. Schema fallback within one call: when a write of a save fails because the
\* duration column is absent, the same call goes on with the same write (upsert for
\* upsert, update for update) for the same key and position without the column, the
\* store untouched; and when the write without the column lands, a row of the key
\* holds the floor of the saved position, as a write with the column would store it.
C31_SchemaFallback ==
    [][\A k \in Slots :
        /\ MissesColumn(k)
              => /\ calls[k].pc = "upsert" => calls'[k].pc = "upsertNoDur"
                 /\ calls[k].pc = "update" => calls'[k].pc = "updateNoDur"
                 /\ calls[k].pc \in {"upsert", "update"}
                 /\ <<calls'[k].op, calls'[k].c, calls'[k].u, calls'[k].pos,
                      calls'[k].dur, calls'[k].uid>>
                    = <<calls[k].op, calls[k].c, calls[k].u, calls[k].pos,
                        calls[k].dur, calls[k].uid>>
                 /\ store' = store
        /\ WrittenWithoutColumn(k)
              => \E i \in 1..Len(store') :
                    /\ store'[i].user_id = calls[k].uid
                    /\ store'[i].movie_id = calls[k].c
                    /\ store'[i].episode_id =
                          (IF calls[k].pc = "upsertNoDur" THEN calls[k].u ELSE NULL)
                    /\ store'[i].progress_seconds = toInt(calls[k].pos)
                    /\ store'[i].written_for = <<calls[k].c, calls[k].u>>]_vars

\* without the column in the table, a save of an episode has returned after its
\* write, and the row of the episode holds its position
C31_Witness ==
    /\ ~hasDurationColumn
    /\ lastDone.op = "save"
    /\ lastDone.out = "written"
    /\ lastDone.u = Episode1
    /\ \E i \in 1..Len(store) :
          /\ store[i].episode_id = Episode1
          /\ store[i].progress_seconds = toInt(lastDone.pos)
          /\ store[i].updated_at > 0

-----------------------------------------------------------------------------
(* A save and a later save near the end for one identity (SpecFinished) *)

NearEndPosition == Sec(1180)

InitFinished ==
    /\ store \in {<<>>, <<ExternalRow(TheUser, NULL, Sec(50), Sec(1200))>>,
                  <<ExternalRow(TheUser, Episode1, Sec(50), Sec(1200))>>}
    /\ hasDurationColumn \in BOOLEAN
    /\ partialIndex \in BOOLEAN
    /\ principal = TheUser
    /\ calls = [k \in Slots |-> IdleCall]
    /\ now = StartTime
    /\ issued = 0
    /\ lastDone = NoCall
    /\ InitNoPlayer

\* the environment saves a position far from the end and then, for the same
\* identity, a position near the end
FinishedSave(k, u) ==
    /\ issued <= 1
    /\ issued = 1 => SavedFor(u)
    /\ issued' = issued + 1
    /\ now' = now + 1
    /\ saveProgress(k, ValidContent, NULL, u,
                    IF issued = 0 THEN FirstPosition ELSE NearEndPosition, Sec(1200), now',
                    "env")
    /\ UNCHANGED <<schemaVars, ctlVars>>

\* the statements of the two saves; no insert of theirs meets a unique violation,
\* only one of them writes
NextFinished ==
    \/ \E k \in Slots, u \in {NULL, Episode1} : FinishedSave(k, u)
    \/ \E k \in Slots : DeleteStep(k)
    \/ \E k \in Slots, withDuration \in BOOLEAN :
          \/ UpsertStep(k, withDuration)
          \/ UpdateStep(k, withDuration)
          \/ InsertStep(k, withDuration)

SpecFinished == InitFinished /\ [][NextFinished]_vars

\* the two saves were in flight together and have both returned, the one after its
\* write and the other after its delete
BothCompleted ==
    /\ issued = 2
    /\ \A j \in Slots : ~Busy(j)
    /\ ~lastDone.solo
    /\ lastDone.op = "save" /\ lastDone.prev.op = "save"
    /\ {lastDone.out, lastDone.prev.out} = {"written", "deleted"}

\* C32. Finished stays finished under reordering: once a save far from the end and
\* a later-issued save near the end for the same identity, in flight together,
\* have both completed, the store holds no record of that identity.
C32_FinishedStaysFinished ==
    BothCompleted
        => ~\E i \in 1..Len(store) :
              /\ store[i].user_id = TheUser
              /\ store[i].movie_id = lastDone.c
              /\ store[i].episode_id = lastDone.u

-----------------------------------------------------------------------------
(* The caller goes from the first episode to the second, the new source and the
   new unit id arriving together or one after the other, in either order; the
   saves of episodes are upserts (SpecSwitch) *)

\* the source the caller plays each episode from
SourceOf(u) == IF u = Episode1 THEN "src-1" ELSE "src-2"

InitSwitch ==
    /\ Plain
    /\ Mounted
    /\ mediaDuration = Sec(1200)
    /\ hasDurationColumn = TRUE
    /\ store = <<>>
    /\ partialIndex = TRUE
    /\ episodeId = Episode1
    /\ category = "series"
    /\ contentCategoryFromDb = category

NextSwitch ==
    \/ \E newSrc \in {src, SourceOf(Episode2)}, newEpisodeId \in {episodeId, Episode2} :
            PropsChange(newSrc, newEpisodeId)
    \/ \E d \in {NaN, mediaDuration} : Meta(d)
    \/ \E k \in Slots, withDuration \in BOOLEAN : RestoreLoadStep(k, withDuration)
    \/ TimeUpdate(Position)
    \/ Flush("pause")
    \/ \E k \in Slots, withDuration \in BOOLEAN : UpsertStep(k, withDuration)

SpecSwitch == InitSwitch /\ [][NextSwitch]_vars

\* C33. No cross-unit write: whatever the changes of identity and of source, a save
\* issued by a tick or a flush under the identity (c, u) is issued while the media
\* attached is the source of (c, u), so that the position and the duration it
\* carries are read from that media and not from the media of the unit before.
C33_NoCrossUnitWrite ==
    [][\A k \in Slots :
        (SaveStarts(k, "timeupdate") \/ SaveStarts(k, "flush"))
            => src = SourceOf(calls'[k].u)]_vars

-----------------------------------------------------------------------------
(* Claims about a series played without a unit (SpecSave) *)

\* the session is in series context and no unit id is supplied
NoUnitSession == isSeriesContext /\ ~Truthy(episodeId)

\* C34. Series session without a unit: while the session is in series context with
\* no unit id, no step (metadata, tick, pause, page hidden, unload) starts or
\* completes a call of the engine, the store is left as it is, nothing is sought,
\* and the step at which the duration becomes known sets the restored flag.
C34_SeriesWithoutUnit ==
    [][(NoUnitSession /\ NoUnitSession')
        => /\ \A k \in Slots : ~Busy(k) /\ ~Busy(k)'
           /\ lastDone' = lastDone
           /\ store' = store
           /\ seeks' = seeks
           /\ (duration' # duration /\ ValidDuration(duration')) => restoredRef']_vars

\* a series without a unit whose duration is known: the restored flag is set, a tick
\* has passed the throttle, an event has been handled, nothing was sought
C34_Witness ==
    /\ NoUnitSession
    /\ ValidDuration(vDuration)
    /\ restoredRef
    /\ lastSavedAtRef = now
    /\ handled
    /\ seeks = 0
    /\ store = <<>>

-----------------------------------------------------------------------------
(* Claims about the records in the store (SpecEngine) *)

\* the whole seconds of a time that is not negative
WholeSeconds(t) == Sec(t \div 2)

\* a row as a save with the position pos and the duration dur may leave it
StoredBy(row, pos, dur) ==
    /\ row.progress_seconds = WholeSeconds(pos)
    /\ row.progress_seconds >= 0
    /\ hasDurationColumn
          => /\ row.duration_seconds = WholeSeconds(dur)
             /\ row.duration_seconds > 0
             /\ row.duration_seconds - row.progress_seconds > Sec(NEAR_END_SECONDS)

\* C35. Stored records are never near-end: in every reachable store, a record written
\* by save holds a non-negative whole number of seconds as position and, when the
\* duration column is present, a positive whole number of seconds as duration,
\* more than NEAR_END_SECONDS past the position; and a record that a step writes
\* holds the floor of the position (and of the duration) of the save that writes it.
C35_StoredNeverNearEnd ==
    /\ [](\A i \in 1..Len(store) :
            store[i].updated_at > 0
                => /\ store[i].progress_seconds >= 0
                   /\ store[i].progress_seconds % 2 = 0
                   /\ hasDurationColumn
                        => /\ store[i].duration_seconds > 0
                           /\ store[i].duration_seconds % 2 = 0
                           /\ store[i].duration_seconds - store[i].progress_seconds
                                > Sec(NEAR_END_SECONDS))
    /\ [][Len(store') >= Len(store)
            => \A i \in 1..Len(store') :
                  (i > Len(store) \/ store'[i] # store[i])
                      => \E k \in Slots :
                            /\ calls[k].op = "save"
                            /\ calls'[k].pc = "idle"
                            /\ StoredBy(store'[i], calls[k].pos, calls[k].dur)]_vars

\* a save at half a second of a media of 1200 s has left a record at 0 s with the
\* duration, and a save 40 s before the end has returned without a record of it
C35_Witness ==
    /\ hasDurationColumn
    /\ lastDone.op = "save"
    /\ \E i \in 1..Len(store) :
          /\ store[i].updated_at > 0
          /\ store[i].progress_seconds = 0
          /\ store[i].duration_seconds = Sec(1200)
    /\ \/ lastDone.pos = Sec(1160) /\ lastDone.out = "deleted"
       \/ lastDone.prev.pos = Sec(1160) /\ lastDone.prev.out = "deleted"

-----------------------------------------------------------------------------
(* Claims about the creation of a record (SpecSave) *)

\* C36. Creation threshold: a step that adds a record to the store is a step of a
\* save whose position is past the minimum progress, so not of a save at
\* position 0.
C36_CreationThreshold ==
    [][Len(store') > Len(store)
        => \E k \in Slots :
              /\ calls[k].op = "save"
              /\ calls'[k].pc = "idle"
              /\ calls[k].pos > 0]_vars

-----------------------------------------------------------------------------
(* Playback failures (SpecFailure) *)

\* a handler of failures that flashes a text
reportFailure_Flash(shown) == "Error"

\* hls.on(Hls.Events.ERROR) and onError call console.error and nothing else: the
\* feedback shown is the one shown before
reportFailure(shown) == shown

\* console.error of a failure of the given kind
Logged(kind) == <<kind, ~errorLog[2]>>

\* the Hls instance emits Hls.Events.ERROR
HlsError ==
    /\ mounted
    /\ hlsRef # NULL
    /\ errorLog' = Logged("hls")
    /\ feedback' = reportFailure(feedback)
    /\ UNCHANGED <<schemaVars, engineVars, now, issued, src, contentId, episodeId,
                   contentCategoryFromDb, category, mediaDuration, vDuration,
                   vCurrentTime, duration, restoredRef, lastSavedAtRef, loads, seeks,
                   tickSavedAt, reloaded, handled, givenVars, thumbVars, plays,
                   bindVars, selected, mounted, playlistNextAutoplayRef>>

\* the video element fires error: onError
VideoError ==
    /\ mounted
    /\ videoSrc # NULL
    /\ errorLog' = Logged("video")
    /\ feedback' = reportFailure(feedback)
    /\ UNCHANGED <<schemaVars, engineVars, now, issued, src, contentId, episodeId,
                   contentCategoryFromDb, category, mediaDuration, vDuration,
                   vCurrentTime, duration, restoredRef, lastSavedAtRef, loads, seeks,
                   tickSavedAt, reloaded, handled, givenVars, thumbVars, plays,
                   bindVars, selected, mounted, playlistNextAutoplayRef>>

\* a movie with a record at 300 s, played by hls.js or by the browser
InitFailure ==
    /\ NoThumbnails
    /\ errorLog = NoError
    /\ autoplay = FALSE
    /\ plays = FALSE
    /\ episodes = <<>>
    /\ playlistMode = TRUE
    /\ onSelectEpisode = FALSE
    /\ seasonId = NULL
    /\ hlsSupport \in {"hlsjs", "native"}
    /\ Mounted
    /\ mediaDuration = Sec(1200)
    /\ hasDurationColumn = TRUE
    /\ store = <<ExternalRow(TheUser, NULL, Sec(300), Sec(1200))>>
    /\ partialIndex = TRUE
    /\ episodeId = NULL
    /\ category = "movie"
    /\ contentCategoryFromDb = category

NextFailure ==
    \/ \E d \in {NaN, mediaDuration} : Meta(d)
    \/ \E k \in Slots, withDuration \in BOOLEAN : RestoreLoadStep(k, withDuration)
    \/ TimeUpdate(Position)
    \/ Pass
    \/ \E k \in Slots, withDuration \in BOOLEAN : UpdateStep(k, withDuration)
    \/ HlsError
    \/ VideoError

SpecFailure == InitFailure /\ [][NextFailure]_vars

\* the step reports a playback failure
FailureReported == errorLog' # errorLog

\* the step leaves the session as it is: the binding, the identity, the restored
\* flag, the throttle timestamp, the media, and no call is started
SessionUnchanged ==
    /\ UNCHANGED <<hlsRef, videoSrc, bindings, src, contentId, episodeId>>
    /\ UNCHANGED <<restoredRef, lastSavedAtRef, seeks, loads, calls, lastDone, store>>
    /\ UNCHANGED <<vDuration, vCurrentTime, duration, plays, mounted>>

-----------------------------------------------------------------------------
(* A playlist played to its end: every episode ends, and the caller loads every
   episode asked for (SpecAdvance) *)

InitAdvance ==
    /\ NoThumbnails
    /\ errorLog = NoError
    /\ autoplay = FALSE
    /\ plays = FALSE
    /\ episodes \in ListsOf({S1E1, S1E2, S2E1})
    /\ playlistMode = TRUE
    /\ onSelectEpisode = TRUE
    /\ seasonId = NULL
    /\ hlsSupport = "hlsjs"
    /\ Mounted
    /\ mediaDuration = Sec(1200)
    /\ hasDurationColumn = TRUE
    /\ store = <<>>
    /\ partialIndex = TRUE
    /\ episodeId \in {Episode1, Episode2, Episode3}
    /\ category = "series"
    /\ contentCategoryFromDb = category

NextAdvance ==
    \/ Meta(mediaDuration)
    \/ \E k \in Slots, withDuration \in BOOLEAN : RestoreLoadStep(k, withDuration)
    \/ Ended
    \/ SelectEpisode

\* the sink reports the metadata of an attached source and plays it to its end; the
\* store answers every load; the caller answers every request
SpecAdvance ==
    /\ InitAdvance
    /\ [][NextAdvance]_vars
    /\ WF_vars(Meta(mediaDuration))
    /\ \A k \in Slots : WF_vars(\E withDuration \in BOOLEAN : RestoreLoadStep(k, withDuration))
    /\ WF_vars(Ended)
    /\ WF_vars(SelectEpisode)

\* the place of the unit u in the order of the Navigator
PlaceOf(u) ==
    LET ordered == orderedEpisodes(episodes)
    IN  CHOOSE i \in DOMAIN ordered : ordered[i].id = u

\* C38. Auto-advance terminates: with playlist mode on, unique unit ids and a caller
\* that loads every unit asked for, every request of ended is for a unit strictly
\* after the unit played in the order of the Navigator, every unit loaded is
\* strictly after the unit before, and in the end the last unit is the one played,
\* its completion is notified and no request is pending.
C38_AutoAdvanceTerminates ==
    /\ [][/\ selected' # selected => PlaceOf(selected') > PlaceOf(episodeId)
          /\ episodeId' # episodeId => PlaceOf(episodeId') > PlaceOf(episodeId)]_vars
    /\ <>[](/\ PlaceOf(episodeId) = Len(episodes)
            /\ feedback = "Finalizado"
            /\ selected \in {NULL, episodeId}
            /\ ~playlistNextAutoplayRef)

\* the playlist given out of order was entered at its first unit, and its last unit,
\* asked for and loaded, has ended
C38_Witness ==
    /\ episodes = <<S2E1, S1E2, S1E1>>
    /\ episodeId = Episode3
    /\ selected = Episode3
    /\ feedback = "Finalizado"
    /\ seeks = 0
    /\ src = "src-1"

-----------------------------------------------------------------------------
(* Claims about cue sheets fetched for a reference that has changed (SpecCues) *)

\* the fetch of the closure in slot k settles in this step
FetchSettles(k) ==
    /\ vttLoads[k].live
    /\ ~vttLoads'[k].live

\* the fetch in slot k is stale: the reference is no longer the one it was started
\* for, or the component is unmounted, or a fetch started after it is in flight
StaleFetch(k) ==
    \/ vttLoads[k].url # thumbnailsVtt
    \/ ~mounted
    \/ \E j \in Slots \ {k} : vttLoads[j].live /\ ~vttLoads[j].cancelled

\* what a fetch for the reference of the component makes of the index
FetchedIndex ==
    IF loadThumbnailVttThrows(vttSheet) THEN <<>>
    ELSE loadThumbnailVtt(thumbnailsVtt, vttSheet)

\* C39. Stale cue-sheet discard: the result or the failure of a fetch that settles
\* after the reference changed, was removed, or the component unmounted leaves
\* the cue index as it is; a fetch that is not stale makes the index the cues of
\* the current reference, or empty when it fails; and no other step changes the
\* index but the removal of the reference, which empties it.
C39_StaleFetchDiscarded ==
    [][/\ \A k \in Slots :
            FetchSettles(k)
                => IF StaleFetch(k) THEN thumbnailCues' = thumbnailCues
                   ELSE thumbnailCues' = FetchedIndex
       /\ thumbnailCues' # thumbnailCues
            => \/ \E k \in Slots : FetchSettles(k) /\ ~StaleFetch(k)
               \/ ~Truthy(thumbnailsVtt') /\ thumbnailCues' = <<>>]_vars

\* the index holds the cues of the second reference while the fetch for the first,
\* started before, has settled too
C39_Witness ==
    /\ thumbnailsVtt = "https://cdn/b/thumbs.vtt"
    /\ vttSheet = SpriteSheet
    /\ thumbnailCues = loadThumbnailVtt(thumbnailsVtt, vttSheet)
    /\ thumbnailCues # loadThumbnailVtt("https://cdn/a/thumbs.vtt", vttSheet)
    /\ \A k \in Slots : ~vttLoads[k].live

-----------------------------------------------------------------------------
(* Cue sheets made of a header and well-formed blocks (SpecParse) *)

MaxGap == 2

\* the layout of a block: is there an identifier line, and how many blank lines come
\* before the block, after the identifier, and between the timing line and the payload
Layouts ==
    [id : BOOLEAN, before : 0..MaxGap, afterId : 0..1, beforePayload : 0..MaxGap]

Blanks(n) == [i \in 1..n |-> BlankLine]

\* the timing line and the payload line of the k-th block
TimingOf(k) ==
    IF k = 1 THEN TimingLine(<<0, 0, 0>>, <<0, 0, Ds(5)>>)
    ELSE TimingLine(<<0, Ds(5)>>, <<0, Ds(12)>>)

PayloadOf(k) ==
    IF k = 1 THEN TextLine("https://img/1.jpg", <<>>)
    ELSE TextLine("sprite.jpg", <<160, 0, 160, 90>>)

\* the lines of the k-th block in the layout l
BlockLines(k, l) ==
    Blanks(l.before)
        \o (IF l.id THEN <<TextLine("cue", <<>>)>> \o Blanks(l.afterId) ELSE <<>>)
        \o <<TimingOf(k)>> \o Blanks(l.beforePayload) \o <<PayloadOf(k)>>

\* the header followed by the blocks of the layouts ls
RECURSIVE SheetLines(_, _)
SheetLines(ls, k) ==
    IF k > Len(ls) THEN <<>> ELSE BlockLines(k, ls[k]) \o SheetLines(ls, k + 1)

SheetOf(ls) == Text(<<HeaderLine>> \o SheetLines(ls, 1))

LayoutLists == {<<>>} \cup [1..1 -> Layouts] \cup [1..2 -> Layouts]

InitParse ==
    /\ errorLog = NoError
    /\ episodes = <<>>
    /\ playlistMode = TRUE
    /\ onSelectEpisode = FALSE
    /\ seasonId = NULL
    /\ hlsSupport = "hlsjs"
    /\ autoplay = FALSE
    /\ plays = FALSE
    /\ Mounted
    /\ mediaDuration = Sec(1200)
    /\ hasDurationColumn = TRUE
    /\ store = <<>>
    /\ partialIndex = TRUE
    /\ episodeId = NULL
    /\ category = "movie"
    /\ contentCategoryFromDb = category
    /\ thumbnailsVtt = "https://cdn/a/thumbs.vtt"
    /\ vttSheet \in {SheetOf(ls) : ls \in LayoutLists}
    /\ thumbnailCues = <<>>
    /\ vttLoads = [k \in Slots |->
                     IF k = 1
                     THEN [live |-> TRUE, cancelled |-> FALSE, url |-> thumbnailsVtt]
                     ELSE NoVttLoad]
    /\ hoverTime = NoTime

NextParse == \E k \in Slots : VttResolve(k)

SpecParse == InitParse /\ [][NextParse]_vars

\* the cue of the k-th block, for the cue sheet at https://cdn/a/thumbs.vtt
CueOfBlock(k) ==
    IF k = 1
    THEN [start |-> 0, end |-> Ds(5), url |-> "https://img/1.jpg", xywh |-> <<>>]
    ELSE [start |-> Ds(5), end |-> Ds(12), url |-> "https://cdn/a/sprite.jpg",
          xywh |-> <<160, 0, 160, 90>>]

\* the fetch of the cue sheet has settled
Indexed == \A k \in Slots : ~vttLoads[k].live

\* C40. Cue-sheet parsing: for a sheet made of the header and n blocks, each an
\* optional identifier line, a timing line and a payload line, with blank lines
\* between the blocks and inside them before the payload, the index built holds
\* exactly n cues in the order of the file, the k-th with the start, the end and the
\* payload of the k-th block.
C40_CueSheetParsing ==
    Indexed
        => \A ls \in LayoutLists :
              vttSheet = SheetOf(ls)
                  => /\ Len(thumbnailCues) = Len(ls)
                     /\ \A k \in 1..Len(ls) : thumbnailCues[k] = CueOfBlock(k)

\* two blocks with identifiers, a blank line after each identifier and two before
\* each payload, are indexed as two cues
C40_Witness ==
    /\ Indexed
    /\ vttSheet = SheetOf(<<[id |-> TRUE, before |-> 1, afterId |-> 1, beforePayload |-> 2],
                            [id |-> TRUE, before |-> 2, afterId |-> 1, beforePayload |-> 2]>>)
    /\ thumbnailCues = <<CueOfBlock(1), CueOfBlock(2)>>

=============================================================================
